---- MODULE Spec2Model ----
(***************************************************************************)
(* A model of the DwarFS FUSE driver (src/src/dwarfs_main.cpp, low-level   *)
(* API build) and of the read path / block cache behind it.                *)
(*                                                                         *)
(* Two specifications share the module:                                    *)
(*   Spec       the driver operations (op_lookup ... op_readdir), one      *)
(*              action per handler, served against a small fixed image;    *)
(*   SpecCache  the block cache, its worker pool and its tidy passes.      *)
(***************************************************************************)
EXTENDS Integers, Sequences, FiniteSets

VARIABLES
  opts,      \* the mount options the handlers read (options, l.146-186)
  req,       \* the request being served (the handler's arguments)
  fi,        \* the caller's struct fuse_file_info after the handler
  replies,   \* the fuse_reply_* calls the handler made, in order
  fscalls,   \* the filesystem_v2 operations the handler called, in order
  thrown,    \* the exception that left the handler ("none" if none did)
  rd,        \* a client that lists one directory through op_readdir
  det,       \* inode reader: the sequential-access detector of one open file
  entries,   \* block cache: one entry per block id
  callers,   \* block cache: the reader threads (position, handles, outcome)
  queue,     \* worker pool: the queued decode jobs, in service order
  running,   \* worker pool: what each worker thread is decoding
  clock,     \* the time the tidy timer and the access stamps read
  evicted,   \* the block ids the last step evicted
  pool,      \* worker pool: deferred, running, stopping or joined
  main,      \* dwarfs_main and run_fuse: where the process is
  rice       \* ricepp: the block handed to encode_block and what it wrote

facadeVars == <<opts, req, fi, replies, fscalls, thrown, rd, det>>
cacheVars  == <<entries, callers, queue, running, clock, evicted>>
\* what the block cache's operations leave alone, and what the handlers do
mainVars   == <<pool, main>>
nonCacheVars  == <<facadeVars, mainVars, rice>>
nonFacadeVars == <<cacheVars, mainVars, rice>>
vars       == <<opts, req, fi, replies, fscalls, thrown, rd, det,
                entries, callers, queue, running, clock, evicted, pool, main,
                rice>>

(***************************************************************************)
(* Program constants                                                       *)
(***************************************************************************)
FUSE_ROOT_ID == 1
ENOENT  == 2
EIO     == 5
EBADF   == 9
EACCES  == 13
ENOTDIR == 20
EISDIR  == 21
EINVAL  == 22
ERANGE  == 34
ENODATA == 61

O_RDONLY  == 0
O_WRONLY  == 1
O_RDWR    == 2
O_TRUNC   == 512
O_APPEND  == 1024
\* #define O_ACCMODE (O_RDONLY | O_WRONLY | O_RDWR)
O_ACCMODE == 3

None == 0 - 1

(***************************************************************************)
(* Bounds of the model                                                     *)
(***************************************************************************)
MaxReadSize == 5     \* largest size argument of a read request
MaxReadOff  == 11    \* largest offset argument of a read request

(***************************************************************************)
(* Arithmetic helpers                                                      *)
(***************************************************************************)
Min(a, b) == IF a < b THEN a ELSE b

RECURSIVE BitAnd(_, _)
\* the C operator & on non-negative ints
BitAnd(a, b) ==
  IF a = 0 \/ b = 0 THEN 0
  ELSE (IF a % 2 = 1 /\ b % 2 = 1 THEN 1 ELSE 0) + 2 * BitAnd(a \div 2, b \div 2)

RECURSIVE Concat(_)
\* the concatenation of a sequence of sequences
Concat(ss) == IF ss = <<>> THEN <<>> ELSE Head(ss) \o Concat(Tail(ss))

RECURSIVE SumLen(_)
SumLen(ss) == IF ss = <<>> THEN 0 ELSE Head(ss).len + SumLen(Tail(ss))

(***************************************************************************)
(* The mounted image: inodes, directory entries, chunks and blocks.        *)
(* Inode numbers are the image's (0 is the root); the driver's fuse_ino_t  *)
(* is the inode number plus the inode offset FUSE_ROOT_ID (l.1289-1313).   *)
(***************************************************************************)
Inodes == 0 .. 5

InodeType(i) ==
  CASE i \in {0, 1, 2} -> "directory"
    [] i = 3           -> "symlink"
    [] OTHER           -> "regular"

\* the directory-entry table: per directory, its (name, inode) pairs in
\* the order stored in the image
DirEntries(i) ==
  CASE i = 0 -> << [name |-> "big", inode |-> 5], [name |-> "empty", inode |-> 2],
                   [name |-> "lnk", inode |-> 3], [name |-> "sub", inode |-> 1] >>
    [] i = 1 -> << [name |-> "hello.txt", inode |-> 4] >>
    [] OTHER -> << >>

Names == {"big", "empty", "lnk", "sub", "hello.txt", "nope"}

\* strlen(name)
NameLen(n) ==
  CASE n = "hello.txt" -> 9
    [] n = "empty"     -> 5
    [] n = "nope"      -> 4
    [] OTHER           -> 3

BlockSize == 4
Blocks == 0 .. 2

\* the decompressed bytes of a block
BlockData(b) == [k \in 1 .. BlockSize |-> 10 * b + k]

\* the chunk table: per regular file, its (block, offset, length) triples
Chunks(i) ==
  CASE i = 5 -> << [blk |-> 0, off |-> 0, len |-> 4], [blk |-> 1, off |-> 0, len |-> 4],
                   [blk |-> 2, off |-> 1, len |-> 2] >>
    [] i = 4 -> << [blk |-> 2, off |-> 3, len |-> 1], [blk |-> 1, off |-> 1, len |-> 2] >>
    [] OTHER -> << >>

\* the bytes a (block, offset, length) reference denotes
SegBytes(s) == SubSeq(BlockData(s.blk), s.off + 1, s.off + s.len)

RECURSIVE SegsBytes(_)
SegsBytes(ss) == IF ss = <<>> THEN <<>> ELSE SegBytes(Head(ss)) \o SegsBytes(Tail(ss))

\* the file's contents, as the image was built from them
FileBytes(i) == SegsBytes(Chunks(i))
FileSize(i) == SumLen(Chunks(i))

(***************************************************************************)
(* Metadata view (filesystem_v2 / metadata_v2, called by the driver)       *)
(***************************************************************************)
\* fs.find(ino): the inode of a fuse inode number, or None
Find(ino) == IF ino - FUSE_ROOT_ID \in Inodes THEN ino - FUSE_ROOT_ID ELSE None

\* fs.find(parent, name): the child of a directory, or None
FindName(parent, name) ==
  LET p == Find(parent)
      hit == IF p = None THEN {}
             ELSE {k \in 1 .. Len(DirEntries(p)) : DirEntries(p)[k].name = name}
  IN IF hit = {} THEN None ELSE DirEntries(p)[CHOOSE k \in hit : TRUE].inode

\* fs.getattr(entry, &stbuf): the stat of an inode, st_ino translated by the
\* inode offset
Stat(i) == [st_ino |-> i + FUSE_ROOT_ID, type |-> InodeType(i), st_size |-> FileSize(i)]

\* fs.getattr(entry, &stbuf)
GetAttr(i) == [err |-> 0, st |-> Stat(i)]

\* fs.access(entry, mode, uid, gid): the image grants r-x to everyone, so
\* a mode with W_OK (2) is denied
Access(i, mode) == IF BitAnd(mode, 2) # 0 THEN EACCES ELSE 0

\* fs.readlink(entry, &str, mode)
Readlink(i) ==
  IF InodeType(i) = "symlink" THEN [err |-> 0, str |-> "sub"] ELSE [err |-> EINVAL, str |-> ""]

\* fs.opendir(entry): the directory handle, or None for a non-directory
Opendir(i) == IF InodeType(i) = "directory" THEN i ELSE None
\* fs.dirsize(dir)
Dirsize(d) == Len(DirEntries(d))
\* fs.readdir(dir, off): the entry at an offset below dirsize
ReaddirAt(d, off) == DirEntries(d)[off + 1]

RECURSIVE WalkChunks(_, _, _)
\* the inode reader's walk: the (block, offset, length) descriptors of the
\* file range that starts `off` bytes into the chunk list `cs` and is
\* `len` bytes long, cut at the end of the chunks
WalkChunks(cs, off, len) ==
  IF cs = <<>> \/ len = 0 THEN <<>>
  ELSE LET c == Head(cs) IN
       IF off >= c.len THEN WalkChunks(Tail(cs), off - c.len, len)
       ELSE LET n == Min(len, c.len - off) IN
            << [blk |-> c.blk, off |-> c.off + off, len |-> n] >>
              \o WalkChunks(Tail(cs), 0, len - n)

\* fs.readv(ino, buf, size, off): the scatter-gather descriptors and the
\* number of bytes, or a negative errno
Readv(ino, size, off) ==
  LET i == Find(ino) IN
  IF i = None \/ InodeType(i) # "regular" THEN [rv |-> 0 - EBADF, buf |-> <<>>]
  ELSE LET segs == WalkChunks(Chunks(i), off, size)
       IN [rv |-> SumLen(segs), buf |-> segs]

(***************************************************************************)
(* The driver: what a handler's body produces, checked_call and            *)
(* checked_reply_err                                                       *)
(***************************************************************************)
\* What the body of a handler produced: the exception it threw ("none",
\* "system_error" or "exception"), its return value, the replies it sent,
\* the filesystem operations it called and its out-parameter (the struct
\* stat, the link target or the caller's fuse_file_info).
Outcome(ret, rep, calls, f) ==
  [thrown |-> "none", ret |-> ret, replies |-> rep, calls |-> calls, out |-> f]

\* A filesystem operation throws: a dwarfs::system_error carrying errno
\* `eno`, or another std::exception.
Throw(kind, eno, calls, f) ==
  [thrown |-> kind, ret |-> eno, replies |-> <<>>, calls |-> calls, out |-> f]

Faults == {"none", "system_error", "exception"}
\* the errno a thrown system_error may carry
SysErrnos == {EACCES, EINVAL}

\* the fuse_file_info the kernel passes with a request
FileInfo(flags, fh) == [flags |-> flags, fh |-> fh, direct_io |-> 0, keep_cache |-> 0]

Reply(kind, val) == [kind |-> kind, val |-> val]

\* checked_call without its second catch clause: only a system_error is
\* caught
checked_call_system_error_only(out) ==
  IF out.thrown = "system_error" THEN [out EXCEPT !.thrown = "none"] ELSE out

\* what f() returned, the errno of the system_error it threw, or EIO for
\* any other std::exception
checked_call(out) ==
  IF out.thrown = "system_error" THEN [out EXCEPT !.thrown = "none"]
  ELSE IF out.thrown = "exception" THEN [out EXCEPT !.thrown = "none", !.ret = EIO]
  ELSE out

checked_reply_err(out) ==
  LET r == checked_call(out) IN
  IF r.thrown # "none" THEN r
  ELSE IF r.ret # 0 THEN [r EXCEPT !.replies = Append(@, Reply("err", r.ret))]
  ELSE r

\* std::numeric_limits<double>::max()
DBL_MAX == "max"

\* a handler without out-parameter
NoOut == <<>>

(***************************************************************************)
(* op_lookup                                                               *)
(***************************************************************************)
\* op_lookup that replies the parent's inode number and lets the kernel
\* forget the entry at once
op_lookup_parent_ino(parent, name, fault, eno) ==
  checked_reply_err(
    IF fault # "none" THEN Throw(fault, eno, <<"find">>, NoOut)
    ELSE LET entry == FindName(parent, name) IN
         IF entry = None THEN Outcome(ENOENT, <<>>, <<"find">>, NoOut)
         ELSE LET a == GetAttr(entry)
                  e == [ino |-> parent, attr |-> a.st, generation |-> 1,
                        attr_timeout |-> DBL_MAX, entry_timeout |-> "0"]
              IN Outcome(a.err,
                         IF a.err = 0 THEN << Reply("entry", e) >> ELSE <<>>,
                         <<"find", "getattr">>, NoOut))

op_lookup(parent, name, fault, eno) ==
  checked_reply_err(
    IF fault # "none" THEN Throw(fault, eno, <<"find">>, NoOut)
    ELSE LET entry == FindName(parent, name) IN
         IF entry = None THEN Outcome(ENOENT, <<>>, <<"find">>, NoOut)
         ELSE LET a == GetAttr(entry)
                  e == [ino |-> a.st.st_ino, attr |-> a.st, generation |-> 1,
                        attr_timeout |-> DBL_MAX, entry_timeout |-> DBL_MAX]
              IN Outcome(a.err,
                         IF a.err = 0 THEN << Reply("entry", e) >> ELSE <<>>,
                         <<"find", "getattr">>, NoOut))

(***************************************************************************)
(* op_getattr                                                              *)
(***************************************************************************)
op_getattr_common(ino, fault, eno) ==
  checked_call(
    IF fault # "none" THEN Throw(fault, eno, <<"find">>, NoOut)
    ELSE LET entry == Find(ino) IN
         IF entry = None THEN Outcome(ENOENT, <<>>, <<"find">>, NoOut)
         ELSE LET a == GetAttr(entry)
              IN Outcome(a.err, <<>>, <<"find", "getattr">>,
                         IF a.err = 0 THEN a.st ELSE NoOut))

op_getattr(ino, fault, eno) ==
  LET r == op_getattr_common(ino, fault, eno) IN
  IF r.thrown # "none" THEN r
  ELSE IF r.ret = 0
    THEN [r EXCEPT !.replies = << Reply("attr", [attr |-> r.out, attr_timeout |-> DBL_MAX]) >>]
    ELSE [r EXCEPT !.replies = << Reply("err", r.ret) >>]

(***************************************************************************)
(* op_access                                                               *)
(***************************************************************************)
\* op_access_common without the ENOENT return: access is called on
\* whatever find returned
op_access_common_unchecked(ino, mode, fault, eno) ==
  checked_call(
    IF fault # "none" THEN Throw(fault, eno, <<"find">>, NoOut)
    ELSE Outcome(IF Find(ino) = None THEN 0 ELSE Access(Find(ino), mode),
                 <<>>, <<"find", "access">>, NoOut))

op_access_common(ino, mode, fault, eno) ==
  checked_call(
    IF fault # "none" THEN Throw(fault, eno, <<"find">>, NoOut)
    ELSE LET entry == Find(ino) IN
         IF entry # None
           THEN Outcome(Access(entry, mode), <<>>, <<"find", "access">>, NoOut)
           ELSE Outcome(ENOENT, <<>>, <<"find">>, NoOut))

op_access(ino, mode, fault, eno) ==
  LET r == op_access_common(ino, mode, fault, eno) IN
  IF r.thrown # "none" THEN r
  ELSE [r EXCEPT !.replies = << Reply("err", r.ret) >>]

(***************************************************************************)
(* op_readlink                                                             *)
(***************************************************************************)
op_readlink_common(ino, fault, eno) ==
  checked_call(
    IF fault # "none" THEN Throw(fault, eno, <<"find">>, NoOut)
    ELSE LET entry == Find(ino) IN
         IF entry # None
           THEN LET l == Readlink(entry)
                IN Outcome(l.err, <<>>, <<"find", "readlink">>, l.str)
           ELSE Outcome(ENOENT, <<>>, <<"find">>, NoOut))

op_readlink(ino, fault, eno) ==
  LET r == op_readlink_common(ino, fault, eno) IN
  IF r.thrown # "none" THEN r
  ELSE IF r.ret = 0
    THEN [r EXCEPT !.replies = << Reply("readlink", r.out) >>]
    ELSE [r EXCEPT !.replies = << Reply("err", r.ret) >>]

(***************************************************************************)
(* op_open                                                                 *)
(***************************************************************************)
\* op_open_common with the flag check moved before the directory check
op_open_common_flags_first(ino, f, fault, eno) ==
  checked_call(
    IF fault # "none" THEN Throw(fault, eno, <<"find">>, f)
    ELSE LET entry == Find(ino) IN
         IF entry = None THEN Outcome(ENOENT, <<>>, <<"find">>, f)
         ELSE IF BitAnd(f.flags, O_ACCMODE) # O_RDONLY
                 \/ BitAnd(f.flags, O_APPEND + O_TRUNC) # 0
           THEN Outcome(EACCES, <<>>, <<"find">>, f)
         ELSE IF InodeType(entry) = "directory" THEN Outcome(EISDIR, <<>>, <<"find">>, f)
         ELSE Outcome(0, <<>>, <<"find">>,
                      [f EXCEPT !.fh = entry,
                                !.direct_io = IF opts.cache_files = 0 THEN 1 ELSE 0,
                                !.keep_cache = opts.cache_files]))

\* op_open_common testing the access mode against O_WRONLY alone
op_open_common_rdwr_allowed(ino, f, fault, eno) ==
  checked_call(
    IF fault # "none" THEN Throw(fault, eno, <<"find">>, f)
    ELSE LET entry == Find(ino) IN
         IF entry = None THEN Outcome(ENOENT, <<>>, <<"find">>, f)
         ELSE IF InodeType(entry) = "directory" THEN Outcome(EISDIR, <<>>, <<"find">>, f)
         ELSE IF BitAnd(f.flags, O_ACCMODE) = O_WRONLY
                 \/ BitAnd(f.flags, O_APPEND + O_TRUNC) # 0
           THEN Outcome(EACCES, <<>>, <<"find">>, f)
         ELSE Outcome(0, <<>>, <<"find">>,
                      [f EXCEPT !.fh = entry,
                                !.direct_io = IF opts.cache_files = 0 THEN 1 ELSE 0,
                                !.keep_cache = opts.cache_files]))

\* op_open_common with the two cache hints exchanged
op_open_common_hints_swapped(ino, f, fault, eno) ==
  checked_call(
    IF fault # "none" THEN Throw(fault, eno, <<"find">>, f)
    ELSE LET entry == Find(ino) IN
         IF entry = None THEN Outcome(ENOENT, <<>>, <<"find">>, f)
         ELSE IF InodeType(entry) = "directory" THEN Outcome(EISDIR, <<>>, <<"find">>, f)
         ELSE IF BitAnd(f.flags, O_ACCMODE) # O_RDONLY
                 \/ BitAnd(f.flags, O_APPEND + O_TRUNC) # 0
           THEN Outcome(EACCES, <<>>, <<"find">>, f)
         ELSE Outcome(0, <<>>, <<"find">>,
                      [f EXCEPT !.fh = entry,
                                !.direct_io = opts.cache_files,
                                !.keep_cache = IF opts.cache_files = 0 THEN 1 ELSE 0]))

\* op_open_common that fills in the file info before it looks at the flags
op_open_common_writes_first(ino, f, fault, eno) ==
  checked_call(
    IF fault # "none" THEN Throw(fault, eno, <<"find">>, f)
    ELSE LET entry == Find(ino) IN
         IF entry = None THEN Outcome(ENOENT, <<>>, <<"find">>, f)
         ELSE IF InodeType(entry) = "directory" THEN Outcome(EISDIR, <<>>, <<"find">>, f)
         ELSE LET g == [f EXCEPT !.fh = entry,
                                 !.direct_io = IF opts.cache_files = 0 THEN 1 ELSE 0,
                                 !.keep_cache = opts.cache_files]
              IN IF BitAnd(f.flags, O_ACCMODE) # O_RDONLY
                    \/ BitAnd(f.flags, O_APPEND + O_TRUNC) # 0
                   THEN Outcome(EACCES, <<>>, <<"find">>, g)
                 ELSE Outcome(0, <<>>, <<"find">>, g))

op_open_common(ino, f, fault, eno) ==
  checked_call(
    IF fault # "none" THEN Throw(fault, eno, <<"find">>, f)
    ELSE LET entry == Find(ino) IN
         IF entry = None THEN Outcome(ENOENT, <<>>, <<"find">>, f)
         ELSE IF InodeType(entry) = "directory" THEN Outcome(EISDIR, <<>>, <<"find">>, f)
         ELSE IF BitAnd(f.flags, O_ACCMODE) # O_RDONLY
                 \/ BitAnd(f.flags, O_APPEND + O_TRUNC) # 0
           THEN Outcome(EACCES, <<>>, <<"find">>, f)
         ELSE Outcome(0, <<>>, <<"find">>,
                      [f EXCEPT !.fh = entry,
                                !.direct_io = IF opts.cache_files = 0 THEN 1 ELSE 0,
                                !.keep_cache = opts.cache_files]))

op_open(ino, f, fault, eno) ==
  LET r == op_open_common(ino, f, fault, eno) IN
  IF r.thrown # "none" THEN r
  ELSE IF r.ret = 0
    THEN [r EXCEPT !.replies = << Reply("open", r.out) >>]
    ELSE [r EXCEPT !.replies = << Reply("err", r.ret) >>]

(***************************************************************************)
(* op_read                                                                 *)
(***************************************************************************)
\* fuse_reply_iov(req, iov, count): hands the reply to the kernel and
\* returns 0, or -errno when the kernel does not take it (rc); the request
\* is used up either way
fuse_reply_iov(buf, rc) == [rc |-> rc, replies |-> << Reply("iov", buf) >>]

\* what fuse_reply_iov returns to a handler whose request carries `fault`
SendResult(fault, eno) == IF fault = "send_error" THEN 0 - eno ELSE 0

\* op_read passing (off, size) to readv in the wrong order
op_read_args_swapped(ino, size, off, f, fault, eno) ==
  checked_reply_err(
    IF FUSE_ROOT_ID + f.fh # ino THEN Outcome(EIO, <<>>, <<>>, f)
    ELSE IF fault \in {"system_error", "exception"} THEN Throw(fault, eno, <<"readv">>, f)
    ELSE LET r == Readv(ino, off, size) IN
         IF r.rv < 0 THEN Outcome(0 - r.rv, <<>>, <<"readv">>, f)
         ELSE LET s == fuse_reply_iov(r.buf, SendResult(fault, eno))
              IN Outcome(0 - s.rc, s.replies, <<"readv">>, f))

\* op_read that reads whatever the file handle says
op_read_fh_unchecked(ino, size, off, f, fault, eno) ==
  checked_reply_err(
    IF fault \in {"system_error", "exception"} THEN Throw(fault, eno, <<"readv">>, f)
    ELSE LET r == Readv(ino, size, off) IN
         IF r.rv < 0 THEN Outcome(0 - r.rv, <<>>, <<"readv">>, f)
         ELSE LET s == fuse_reply_iov(r.buf, SendResult(fault, eno))
              IN Outcome(0 - s.rc, s.replies, <<"readv">>, f))

op_read(ino, size, off, f, fault, eno) ==
  checked_reply_err(
    IF FUSE_ROOT_ID + f.fh # ino THEN Outcome(EIO, <<>>, <<>>, f)
    ELSE IF fault \in {"system_error", "exception"} THEN Throw(fault, eno, <<"readv">>, f)
    ELSE LET r == Readv(ino, size, off) IN
         IF r.rv < 0 THEN Outcome(0 - r.rv, <<>>, <<"readv">>, f)
         ELSE LET s == fuse_reply_iov(r.buf, SendResult(fault, eno))
              IN Outcome(0 - s.rc, s.replies, <<"readv">>, f))

(***************************************************************************)
(* op_readdir                                                              *)
(***************************************************************************)
\* fuse_add_direntry(req, buf, bufsize, name, st, off): the space the entry
\* needs, sizeof(struct fuse_dirent) + strlen(name) rounded up to 8; the
\* entry is written only if it fits in bufsize
fuse_add_direntry(name) == ((24 + NameLen(name) + 7) \div 8) * 8

\* a policy that goes on while the buffer is not overfull
keep_going_until_full(p) == p.written <= p.size

\* readdir_lowlevel_policy: buf_.size() is `size`, written_ is `written`
keep_going(p) == p.written < p.size

\* readdir_lowlevel_policy::add_entry: the policy after the call, and what
\* the call returned
\* add_entry handing fuse_add_direntry the offset of the entry itself as
\* its cookie
add_entry_cookie_off(p, name, st, off) ==
  LET needed == fuse_add_direntry(name) IN
  IF p.written + needed > p.size
    THEN [ok |-> FALSE, p |-> [p EXCEPT !.asserted = @ /\ (p.written < p.size)]]
    ELSE [ok |-> TRUE,
          p |-> [p EXCEPT !.asserted = @ /\ (p.written < p.size),
                          !.written = @ + needed,
                          !.buf = Append(@, [name |-> name, ino |-> st.st_ino,
                                             off |-> off])]]

add_entry(p, name, st, off) ==
  LET needed == fuse_add_direntry(name) IN
  IF p.written + needed > p.size
    THEN [ok |-> FALSE, p |-> [p EXCEPT !.asserted = @ /\ (p.written < p.size)]]
    ELSE [ok |-> TRUE,
          p |-> [p EXCEPT !.asserted = @ /\ (p.written < p.size),
                          !.written = @ + needed,
                          !.buf = Append(@, [name |-> name, ino |-> st.st_ino,
                                             off |-> off + 1])]]

RECURSIVE readdir_loop(_, _, _, _)
\* the while loop of op_readdir_common: the policy after the loop
readdir_loop(dir, off, lastoff, p) ==
  IF off < lastoff /\ keep_going(p)
    THEN LET res == ReaddirAt(dir, off)
             a == add_entry(p, res.name, GetAttr(res.inode).st, off)
         IN IF ~a.ok THEN a.p ELSE readdir_loop(dir, off + 1, lastoff, a.p)
    ELSE p

\* readdir_lowlevel_policy::finalize
finalize(p) == Reply("buf", [entries |-> p.buf, size |-> p.written])

op_readdir_common(ino, size, off, fault, eno) ==
  LET policy == [size |-> size, written |-> 0, buf |-> <<>>, asserted |-> TRUE] IN
  IF fault # "none" THEN Throw(fault, eno, <<"find">>, policy)
  ELSE LET dirent == Find(ino) IN
       IF dirent = None THEN Outcome(ENOENT, <<>>, <<"find">>, policy)
       ELSE LET dir == Opendir(dirent) IN
            IF dir = None THEN Outcome(ENOTDIR, <<>>, <<"find", "opendir">>, policy)
            ELSE LET p == readdir_loop(dir, off, Dirsize(dir), policy)
                 IN Outcome(0, << finalize(p) >>,
                            <<"find", "opendir", "dirsize", "readdir">>, p)

op_readdir(ino, size, off, fault, eno) ==
  checked_reply_err(op_readdir_common(ino, size, off, fault, eno))

(***************************************************************************)
(* op_statfs                                                               *)
(***************************************************************************)
\* fs.statvfs(&stbuf): the image's block and file counts, read-only
Statvfs == [err |-> 0, st |-> [f_files |-> Cardinality(Inodes), readonly |-> TRUE]]

op_statfs_common(fault, eno) ==
  checked_call(
    IF fault # "none" THEN Throw(fault, eno, <<"statvfs">>, NoOut)
    ELSE Outcome(Statvfs.err, <<>>, <<"statvfs">>,
                 IF Statvfs.err = 0
                   THEN [f_files |-> Statvfs.st.f_files,
                         f_flag |-> IF Statvfs.st.readonly THEN "ST_RDONLY" ELSE ""]
                   ELSE NoOut))

op_statfs(fault, eno) ==
  LET r == op_statfs_common(fault, eno) IN
  IF r.thrown # "none" THEN r
  ELSE IF r.ret = 0
    THEN [r EXCEPT !.replies = << Reply("statfs", r.out) >>]
    ELSE [r EXCEPT !.replies = << Reply("err", r.ret) >>]

(***************************************************************************)
(* op_getxattr, op_listxattr                                               *)
(***************************************************************************)
pid_xattr       == "user.dwarfs.driver.pid"
perfmon_xattr   == "user.dwarfs.driver.perfmon"
inodeinfo_xattr == "user.dwarfs.inodeinfo"

\* userdata.perfmon: no performance monitor compiled in, none created, or
\* one created
PerfmonModes == {"unsupported", "disabled", "enabled"}

\* std::to_string(::getpid())
PidString == "4242"
\* what userdata.perfmon->summarize(oss) writes
PerfmonSummary == "[fuse.op_getxattr]\n      samples: 1\n"
\* folly::toPrettyJson(fs.get_inode_info(entry)) << "\n"
InodeInfoJson(i) ==
  IF Chunks(i) = << >> THEN "{\n  \"mode\": \"" \o InodeType(i) \o "\"\n}\n"
  ELSE "{\n  \"chunks\": [],\n  \"mode\": \"" \o InodeType(i) \o "\"\n}\n"

\* the bytes of a name list: every name is followed by a NUL
RECURSIVE XattrsSize(_)
XattrsSize(xs) == IF xs = << >> THEN 0 ELSE Len(Head(xs)) + 1 + XattrsSize(Tail(xs))

\* op_getxattr that answers the driver attributes on every inode
op_getxattr_any_inode(ino, name, size, fault, eno) ==
  checked_reply_err(
    LET driver == IF name = pid_xattr THEN PidString
                  ELSE IF name = perfmon_xattr
                    THEN (CASE opts.perfmon = "enabled" -> PerfmonSummary
                            [] opts.perfmon = "disabled" -> "performance monitor is disabled\n"
                            [] OTHER -> "no performance monitor support\n")
                  ELSE ""
        extra_size == IF name = perfmon_xattr /\ opts.perfmon = "enabled" THEN 4096 ELSE 0
        entry == Find(ino)
        calls == IF name = inodeinfo_xattr THEN <<"find">> ELSE << >>
    IN IF name = inodeinfo_xattr /\ fault # "none" THEN Throw(fault, eno, calls, NoOut)
       ELSE IF name = inodeinfo_xattr /\ entry = None THEN Outcome(ENOENT, << >>, calls, NoOut)
       ELSE LET value == IF name = inodeinfo_xattr THEN driver \o InodeInfoJson(entry)
                         ELSE driver
            IN IF value = "" THEN Outcome(ENODATA, << >>, calls, NoOut)
               ELSE IF size = 0
                 THEN Outcome(0, << Reply("xattr", Len(value) + extra_size) >>, calls, NoOut)
               ELSE IF size >= Len(value)
                 THEN Outcome(0, << Reply("buf", value) >>, calls, NoOut)
               ELSE Outcome(ERANGE, << >>, calls, NoOut))

\* op_getxattr that wants room for one byte more than the value
op_getxattr_one_more(ino, name, size, fault, eno) ==
  checked_reply_err(
    LET root == ino = FUSE_ROOT_ID
        driver == IF root /\ name = pid_xattr THEN PidString
                  ELSE IF root /\ name = perfmon_xattr
                    THEN (CASE opts.perfmon = "enabled" -> PerfmonSummary
                            [] opts.perfmon = "disabled" -> "performance monitor is disabled\n"
                            [] OTHER -> "no performance monitor support\n")
                  ELSE ""
        extra_size == IF root /\ name = perfmon_xattr /\ opts.perfmon = "enabled"
                        THEN 4096 ELSE 0
        entry == Find(ino)
        calls == IF name = inodeinfo_xattr THEN <<"find">> ELSE << >>
    IN IF name = inodeinfo_xattr /\ fault # "none" THEN Throw(fault, eno, calls, NoOut)
       ELSE IF name = inodeinfo_xattr /\ entry = None THEN Outcome(ENOENT, << >>, calls, NoOut)
       ELSE LET value == IF name = inodeinfo_xattr THEN driver \o InodeInfoJson(entry)
                         ELSE driver
            IN IF value = "" THEN Outcome(ENODATA, << >>, calls, NoOut)
               ELSE IF size = 0
                 THEN Outcome(0, << Reply("xattr", Len(value) + extra_size) >>, calls, NoOut)
               ELSE IF size > Len(value)
                 THEN Outcome(0, << Reply("buf", value) >>, calls, NoOut)
               ELSE Outcome(ERANGE, << >>, calls, NoOut))

\* The value of the named attribute: on the root the pid or the performance
\* monitor's text, on every inode the inode info; an empty value is "no
\* such attribute" (ENODATA; ENOATTR on macOS). Then the size negotiation.
op_getxattr(ino, name, size, fault, eno) ==
  checked_reply_err(
    LET root == ino = FUSE_ROOT_ID
        driver == IF root /\ name = pid_xattr THEN PidString
                  ELSE IF root /\ name = perfmon_xattr
                    THEN (CASE opts.perfmon = "enabled" -> PerfmonSummary
                            [] opts.perfmon = "disabled" -> "performance monitor is disabled\n"
                            [] OTHER -> "no performance monitor support\n")
                  ELSE ""
        extra_size == IF root /\ name = perfmon_xattr /\ opts.perfmon = "enabled"
                        THEN 4096 ELSE 0
        entry == Find(ino)
        calls == IF name = inodeinfo_xattr THEN <<"find">> ELSE << >>
    IN IF name = inodeinfo_xattr /\ fault # "none" THEN Throw(fault, eno, calls, NoOut)
       ELSE IF name = inodeinfo_xattr /\ entry = None THEN Outcome(ENOENT, << >>, calls, NoOut)
       ELSE LET value == IF name = inodeinfo_xattr THEN driver \o InodeInfoJson(entry)
                         ELSE driver
            IN IF value = "" THEN Outcome(ENODATA, << >>, calls, NoOut)
               ELSE IF size = 0
                 THEN Outcome(0, << Reply("xattr", Len(value) + extra_size) >>, calls, NoOut)
               ELSE IF size >= Len(value)
                 THEN Outcome(0, << Reply("buf", value) >>, calls, NoOut)
               ELSE Outcome(ERANGE, << >>, calls, NoOut))

\* op_listxattr that lists the driver attributes on every inode
op_listxattr_driver_everywhere(ino, size) ==
  checked_reply_err(
    LET xattrs == <<pid_xattr, perfmon_xattr, inodeinfo_xattr>>
    IN IF size = 0
         THEN Outcome(0, << Reply("xattr", XattrsSize(xattrs)) >>, << >>, NoOut)
       ELSE IF size >= XattrsSize(xattrs)
         THEN Outcome(0, << Reply("buf", xattrs) >>, << >>, NoOut)
       ELSE Outcome(ERANGE, << >>, << >>, NoOut))

\* op_listxattr that lists the perfmon attribute only when a performance
\* monitor was created
op_listxattr_perfmon_if_enabled(ino, size) ==
  checked_reply_err(
    LET xattrs == (IF ino = FUSE_ROOT_ID
                     THEN <<pid_xattr>> \o
                          (IF opts.perfmon = "enabled" THEN <<perfmon_xattr>> ELSE << >>)
                     ELSE << >>)
                  \o <<inodeinfo_xattr>>
    IN IF size = 0
         THEN Outcome(0, << Reply("xattr", XattrsSize(xattrs)) >>, << >>, NoOut)
       ELSE IF size >= XattrsSize(xattrs)
         THEN Outcome(0, << Reply("buf", xattrs) >>, << >>, NoOut)
       ELSE Outcome(ERANGE, << >>, << >>, NoOut))

\* The names, each followed by a NUL: on the root the two driver
\* attributes, on every inode the inode info. No filesystem call is made.
op_listxattr(ino, size) ==
  checked_reply_err(
    LET xattrs == (IF ino = FUSE_ROOT_ID THEN <<pid_xattr, perfmon_xattr>> ELSE << >>)
                  \o <<inodeinfo_xattr>>
    IN IF size = 0
         THEN Outcome(0, << Reply("xattr", XattrsSize(xattrs)) >>, << >>, NoOut)
       ELSE IF size >= XattrsSize(xattrs)
         THEN Outcome(0, << Reply("buf", xattrs) >>, << >>, NoOut)
       ELSE Outcome(ERANGE, << >>, << >>, NoOut))

(***************************************************************************)
(* The requests the kernel sends                                           *)
(***************************************************************************)
\* fuse inode numbers: the image's, and one below and one above them
InoArgs == 0 .. FUSE_ROOT_ID + 6
\* open flags: the access modes, alone and with O_CREAT (64), O_TRUNC,
\* O_APPEND, O_NONBLOCK (2048)
FlagArgs == {O_RDONLY, O_WRONLY, O_RDWR, O_ACCMODE, O_RDONLY + 64, O_RDONLY + 2048,
             O_RDONLY + O_TRUNC, O_RDONLY + O_APPEND, O_WRONLY + O_TRUNC,
             O_RDWR + O_APPEND, O_RDONLY + O_APPEND + O_TRUNC}
\* access modes: F_OK, X_OK, W_OK, R_OK and their unions
ModeArgs == 0 .. 7
\* readdir buffer sizes
ReaddirSizes == {0, 8, 32, 40, 64, 72, 104, 4096}
\* attribute names: the driver's three and one it does not know
XattrNames == {pid_xattr, perfmon_xattr, inodeinfo_xattr, "user.other"}
\* getxattr and listxattr buffer sizes: the probe, and sizes around the
\* lengths of the values and of the name lists
XattrLengths ==
  {Len(PidString), Len(PerfmonSummary), Len(PerfmonSummary) + 4096,
   Len("performance monitor is disabled\n"), Len("no performance monitor support\n"),
   XattrsSize(<<inodeinfo_xattr>>),
   XattrsSize(<<pid_xattr, perfmon_xattr, inodeinfo_xattr>>)}
    \cup {Len(InodeInfoJson(i)) : i \in Inodes}
XattrSizes == {0, 1} \cup UNION {{n - 1, n, n + 1} : n \in XattrLengths}
FaultArgs == {<<"none", 0>>} \cup {<<"exception", 0>>}
               \cup {<<"system_error", e>> : e \in SysErrnos}

Request(op, ino, name, size, off, flags, fh, mode, ft) ==
  [op |-> op, ino |-> ino, name |-> name, size |-> size, off |-> off,
   flags |-> flags, fh |-> fh, mode |-> mode, fault |-> ft[1], eno |-> ft[2]]

\* a request arrives and its handler runs: what the handler left behind
Served(r, result) ==
  /\ req' = r
  /\ replies' = result.replies
  /\ fscalls' = result.calls
  /\ fi' = IF r.op \in {"open", "read"} THEN result.out ELSE FileInfo(0, 0)
  /\ thrown' = result.thrown
  /\ UNCHANGED <<opts, det>>
  /\ UNCHANGED nonFacadeVars

(***************************************************************************)
(* Initial state                                                           *)
(***************************************************************************)
NoRequest == Request("none", 0, "", 0, 0, 0, 0, 0, <<"none", 0>>)

FacadeInit ==
  /\ opts \in [cache_files : {0, 1}, perfmon : PerfmonModes]
  /\ req = NoRequest
  /\ fi = FileInfo(0, 0)
  /\ replies = <<>>
  /\ fscalls = <<>>
  /\ thrown = "none"
  /\ det = [last |-> <<>>, count |-> 0, fired |-> FALSE]   \* no history
  /\ rd = [ino |-> FUSE_ROOT_ID, off |-> 0, got |-> <<>>, done |-> FALSE]

(***************************************************************************)
(* Driver actions: one per handler                                         *)
(***************************************************************************)
\* the session loop dispatches requests once op_init has run
Serving == main.pc = "loop" /\ main.inited

Lookup ==
  /\ req.op = "none"
  /\ Serving
  /\ \E parent \in InoArgs, name \in Names, ft \in FaultArgs :
    /\ Served(Request("lookup", parent, name, 0, 0, 0, 0, 0, ft),
              op_lookup(parent, name, ft[1], ft[2]))
    /\ UNCHANGED rd

Getattr ==
  /\ req.op = "none"
  /\ Serving
  /\ \E ino \in InoArgs, ft \in FaultArgs :
    /\ Served(Request("getattr", ino, "", 0, 0, 0, 0, 0, ft),
              op_getattr(ino, ft[1], ft[2]))
    /\ UNCHANGED rd

AccessOp ==
  /\ req.op = "none"
  /\ Serving
  /\ \E ino \in InoArgs, mode \in ModeArgs, ft \in FaultArgs :
    /\ Served(Request("access", ino, "", 0, 0, 0, 0, mode, ft),
              op_access(ino, mode, ft[1], ft[2]))
    /\ UNCHANGED rd

ReadlinkOp ==
  /\ req.op = "none"
  /\ Serving
  /\ \E ino \in InoArgs, ft \in FaultArgs :
    /\ Served(Request("readlink", ino, "", 0, 0, 0, 0, 0, ft),
              op_readlink(ino, ft[1], ft[2]))
    /\ UNCHANGED rd

Open ==
  /\ req.op = "none"
  /\ Serving
  /\ \E ino \in InoArgs, flags \in FlagArgs, ft \in FaultArgs :
    /\ Served(Request("open", ino, "", 0, 0, flags, 0, 0, ft),
              op_open(ino, FileInfo(flags, 0), ft[1], ft[2]))
    /\ UNCHANGED rd

Read ==
  /\ req.op = "none"
  /\ Serving
  /\ \E ino \in InoArgs, size \in 0 .. MaxReadSize, off \in 0 .. MaxReadOff,
        ft \in FaultArgs :
     \E fh \in {h \in {ino - FUSE_ROOT_ID, ino} : h >= 0} :
    /\ Served(Request("read", ino, "", size, off, 0, fh, 0, ft),
              op_read(ino, size, off, FileInfo(0, fh), ft[1], ft[2]))
    /\ UNCHANGED rd

Readdir ==
  /\ req.op = "none"
  /\ Serving
  /\ \E ino \in InoArgs, size \in ReaddirSizes, off \in 0 .. 5, ft \in FaultArgs :
    /\ Served(Request("readdir", ino, "", size, off, 0, 0, 0, ft),
              op_readdir(ino, size, off, ft[1], ft[2]))
    /\ UNCHANGED rd

\* a read whose reply the kernel does not take: the request was
\* interrupted and fuse_reply_iov returns -ENOENT
ReadUndelivered ==
  /\ req.op = "none"
  /\ Serving
  /\ \E ino \in InoArgs, size \in 0 .. MaxReadSize, off \in 0 .. MaxReadOff :
     \E fh \in {h \in {ino - FUSE_ROOT_ID, ino} : h >= 0} :
    /\ Served(Request("read", ino, "", size, off, 0, fh, 0, <<"send_error", ENOENT>>),
              op_read(ino, size, off, FileInfo(0, fh), "send_error", ENOENT))
    /\ UNCHANGED rd

Statfs ==
  /\ req.op = "none"
  /\ Serving
  /\ \E ino \in InoArgs, ft \in FaultArgs :
    /\ Served(Request("statfs", ino, "", 0, 0, 0, 0, 0, ft), op_statfs(ft[1], ft[2]))
    /\ UNCHANGED rd

Getxattr ==
  /\ req.op = "none"
  /\ Serving
  /\ \E ino \in InoArgs, name \in XattrNames, size \in XattrSizes, ft \in FaultArgs :
    /\ Served(Request("getxattr", ino, name, size, 0, 0, 0, 0, ft),
              op_getxattr(ino, name, size, ft[1], ft[2]))
    /\ UNCHANGED rd

Listxattr ==
  /\ req.op = "none"
  /\ Serving
  /\ \E ino \in InoArgs, size \in XattrSizes :
    /\ Served(Request("listxattr", ino, "", size, 0, 0, 0, 0, <<"none", 0>>),
              op_listxattr(ino, size))
    /\ UNCHANGED rd

\* A client starts to list a directory: it will read from offset 0.
ListStart ==
  /\ req.op = "none"
  /\ \E ino \in InoArgs :
    /\ Find(ino) # None /\ InodeType(Find(ino)) = "directory"
    /\ rd' = [ino |-> ino, off |-> 0, got |-> <<>>, done |-> FALSE]
    /\ UNCHANGED <<opts, req, fi, replies, fscalls, thrown, det>>
    /\ UNCHANGED nonFacadeVars

\* The client's next readdir call, at the cookie of the last entry it
\* received; an empty reply ends the listing.
ListNext ==
  /\ req.op = "none"
  /\ Serving
  /\ ~rd.done
  /\ \E size \in ReaddirSizes :
    LET result == op_readdir(rd.ino, size, rd.off, "none", 0)
        got == result.replies[1].val.entries
    IN /\ Served(Request("readdir", rd.ino, "", size, rd.off, 0, 0, 0, <<"none", 0>>),
                 result)
       /\ rd' = IF got = <<>> THEN [rd EXCEPT !.done = TRUE]
                ELSE [rd EXCEPT !.got = @ \o got, !.off = got[Len(got)].off]

\* the kernel has consumed the reply: the driver waits for the next request
Complete ==
  /\ req.op # "none"
  /\ req' = NoRequest
  /\ replies' = <<>>
  /\ fscalls' = <<>>
  /\ fi' = FileInfo(0, 0)
  /\ thrown' = "none"
  /\ UNCHANGED <<opts, rd, det>>
  /\ UNCHANGED nonFacadeVars

(***************************************************************************)
(* Block cache and worker pool                                             *)
(***************************************************************************)
NumCallers == 2      \* reader threads of the model
MaxClock   == 1      \* ticks of the clock the model follows
NumWorkers == 2      \* opts.workers, 2 unless given
BudgetBlocks == 2    \* the cache byte budget, in blocks
TidyMaxAge == 1      \* tidy_max_age, in ticks

Callers == 1 .. NumCallers
Workers == 1 .. NumWorkers
\* cache_bytes
Budget == BudgetBlocks * BlockSize
\* the length of a block's decompressed buffer
BufLen(b) == Len(BlockData(b))

NoJob == [blk |-> None, prio |-> "none"]
Job(b, prio) == [blk |-> b, prio |-> prio]

\* No entry for the block. In an entry, decodes counts the decoder
\* invocations since the entry was inserted (the counting decoder wrapper)
\* and buf names the buffer: the decoder invocation that produced it.
AbsentEntry ==
  [state |-> "absent", pinned |-> 0, waiters |-> {}, last_access |-> 0,
   buf |-> None, decodes |-> 0]

\* A reader: where it is (idle, or waiting in get for block blk), the
\* handles it holds and whether its last get returned an error.
IdleCaller == [pc |-> "idle", blk |-> None, held |-> {}, err |-> FALSE]

CacheInit ==
  /\ entries = [b \in Blocks |-> AbsentEntry]
  /\ callers = [c \in Callers |-> IdleCaller]
  /\ queue = <<>>
  /\ running = [w \in Workers |-> NoJob]
  /\ clock = 0
  /\ evicted = {}

ReadyBlocks(ents) == {b \in Blocks : ents[b].state = "ready"}

RECURSIVE SumBytes(_)
SumBytes(S) ==
  IF S = {} THEN 0 ELSE LET b == CHOOSE x \in S : TRUE IN BufLen(b) + SumBytes(S \ {b})

\* total bytes held by ready entries
ReadyBytes(ents) == SumBytes(ReadyBlocks(ents))

\* the handle a reader holds: the block and the buffer it points at
Handle(b, buf) == [blk |-> b, buf |-> buf]
HeldBlocks(c) == {h.blk : h \in callers[c].held}

\* submit: a foreground job goes ahead of every queued background job
Submit(q, job) ==
  IF job.prio = "bg" THEN Append(q, job)
  ELSE LET fg == SelectSeq(q, LAMBDA j : j.prio = "fg")
           bg == SelectSeq(q, LAMBDA j : j.prio = "bg")
       IN Append(fg, job) \o bg

\* A lookup for a missing block inserts a loading entry and submits the
\* decode.
StartLoad(ents, b, waiters) ==
  [ents EXCEPT ![b] = [state |-> "loading", pinned |-> 0, waiters |-> waiters,
                       last_access |-> 0, buf |-> None, decodes |-> 0]]

\* A get that does not look for a loading entry: it treats the block as
\* missing and submits a second decode.
CacheGet_reload(c, b) ==
  /\ pool = "running"
  /\ callers[c].pc = "idle"
  /\ b \notin HeldBlocks(c)
  /\ CASE entries[b].state \in {"absent", "loading"} ->
            /\ entries' = [StartLoad(entries, b, entries[b].waiters \cup {c})
                             EXCEPT ![b].decodes = entries[b].decodes]
            /\ queue' = Submit(queue, Job(b, "fg"))
            /\ callers' = [callers EXCEPT ![c].pc = "waiting", ![c].blk = b,
                                          ![c].err = FALSE]
       [] entries[b].state = "ready" ->
            /\ entries' = [entries EXCEPT ![b].pinned = @ + 1,
                                          ![b].last_access = clock]
            /\ queue' = queue
            /\ callers' = [callers EXCEPT
                             ![c].held = @ \cup {Handle(b, entries[b].buf)},
                             ![c].err = FALSE]
  /\ evicted' = {}
  /\ UNCHANGED <<running, clock>>
  /\ UNCHANGED nonCacheVars

\* get(block_id, Foreground) by reader c
CacheGet(c, b) ==
  /\ pool = "running"
  /\ callers[c].pc = "idle"
  /\ b \notin HeldBlocks(c)
  /\ CASE entries[b].state = "absent" ->
            /\ entries' = StartLoad(entries, b, {c})
            /\ queue' = Submit(queue, Job(b, "fg"))
            /\ callers' = [callers EXCEPT ![c].pc = "waiting", ![c].blk = b,
                                          ![c].err = FALSE]
       [] entries[b].state = "loading" ->
            /\ entries' = [entries EXCEPT ![b].waiters = @ \cup {c}]
            /\ queue' = queue
            /\ callers' = [callers EXCEPT ![c].pc = "waiting", ![c].blk = b,
                                          ![c].err = FALSE]
       [] entries[b].state = "ready" ->
            /\ entries' = [entries EXCEPT ![b].pinned = @ + 1,
                                          ![b].last_access = clock]
            /\ queue' = queue
            /\ callers' = [callers EXCEPT
                             ![c].held = @ \cup {Handle(b, entries[b].buf)},
                             ![c].err = FALSE]
  /\ evicted' = {}
  /\ UNCHANGED <<running, clock>>
  /\ UNCHANGED nonCacheVars

\* prefetch(block_id): a background load of a missing block; never blocks
CachePrefetch(b) ==
  /\ pool = "running"
  /\ entries[b].state = "absent"
  /\ entries' = StartLoad(entries, b, {})
  /\ queue' = Submit(queue, Job(b, "bg"))
  /\ evicted' = {}
  /\ UNCHANGED <<callers, running, clock>>
  /\ UNCHANGED nonCacheVars

\* a release that drops the handle and leaves the pinned count as it is
CacheRelease_keeps_pin(c, h) ==
  /\ h \in callers[c].held
  /\ callers' = [callers EXCEPT ![c].held = @ \ {h}]
  /\ entries' = entries
  /\ evicted' = {}
  /\ UNCHANGED <<queue, running, clock>>
  /\ UNCHANGED nonCacheVars

\* release(handle) by reader c
CacheRelease(c, h) ==
  /\ h \in callers[c].held
  /\ callers' = [callers EXCEPT ![c].held = @ \ {h}]
  /\ entries' = IF entries[h.blk].state = "ready" /\ entries[h.blk].buf = h.buf
                  THEN [entries EXCEPT ![h.blk].pinned = @ - 1]
                  ELSE entries
  /\ evicted' = {}
  /\ UNCHANGED <<queue, running, clock>>
  /\ UNCHANGED nonCacheVars

\* a worker thread takes the next job and invokes the decoder
WorkerTake(w) ==
  /\ pool \in {"running", "stopping"}
  /\ running[w] = NoJob
  /\ \A v \in Workers : v < w => running[v] # NoJob
  /\ queue # <<>>
  /\ running' = [running EXCEPT ![w] = Head(queue)]
  /\ queue' = Tail(queue)
  /\ entries' = [entries EXCEPT ![Head(queue).blk].decodes = @ + 1]
  /\ evicted' = {}
  /\ UNCHANGED <<callers, clock>>
  /\ UNCHANGED nonCacheVars

\* an entry is destroyed
Evict(ents, b) == [ents EXCEPT ![b] = AbsentEntry]

\* a tidy pass that does not look at the pinned counts
Evictable_pinned(ents) == ReadyBlocks(ents)

\* the entries a tidy pass may evict: ready and not pinned
Evictable(ents) == {b \in ReadyBlocks(ents) : ents[b].pinned = 0}

\* an eviction order that breaks ties by the smaller block id
Before_smaller_id(ents, a, b) ==
  \/ ents[a].last_access < ents[b].last_access
  \/ /\ ents[a].last_access = ents[b].last_access
     /\ \/ ents[a].pinned < ents[b].pinned
        \/ ents[a].pinned = ents[b].pinned /\ a < b

\* eviction order: least recently accessed first; under equal access
\* stamps the smaller pinned count first, then the larger block id first
Before(ents, a, b) ==
  \/ ents[a].last_access < ents[b].last_access
  \/ /\ ents[a].last_access = ents[b].last_access
     /\ \/ ents[a].pinned < ents[b].pinned
        \/ ents[a].pinned = ents[b].pinned /\ a > b

Victim(ents) ==
  CHOOSE a \in Evictable(ents) : \A b \in Evictable(ents) \ {a} : Before(ents, a, b)

\* a load that is not followed by a tidy pass
TidyBudget_skipped(ents, out) == [ents |-> ents, evicted |-> out]

RECURSIVE TidyBudget(_, _)
\* the tidy pass at the end of a load: evicts until the ready bytes are
\* within the budget or nothing evictable is left
TidyBudget(ents, out) ==
  IF ReadyBytes(ents) <= Budget \/ Evictable(ents) = {}
    THEN [ents |-> ents, evicted |-> out]
    ELSE LET v == Victim(ents) IN TidyBudget(Evict(ents, v), out \cup {v})

\* the decode of job.blk succeeded: the entry becomes ready, every waiter
\* is woken with a handle to the buffer, and the cache is tidied
LoadDone(w) ==
  LET b == running[w].blk
      buf == entries[b].decodes
      woken == entries[b].waiters
      ready == [entries EXCEPT ![b].state = "ready", ![b].buf = buf,
                               ![b].pinned = Cardinality(woken),
                               ![b].waiters = {}, ![b].last_access = clock]
      tidy == TidyBudget(ready, {})
  IN /\ entries' = tidy.ents
     /\ evicted' = tidy.evicted
     /\ callers' = [c \in Callers |->
                      IF c \in woken
                        THEN [callers[c] EXCEPT !.pc = "idle", !.blk = None,
                                                !.held = @ \cup {Handle(b, buf)}]
                        ELSE callers[c]]

\* a failed decode that removes the entry and leaves the waiters asleep
LoadFailed_silent(w) ==
  LET b == running[w].blk
  IN /\ entries' = Evict(entries, b)
     /\ evicted' = {}
     /\ callers' = callers

\* the decode of job.blk failed: the entry is removed and every waiter
\* observes the error
LoadFailed(w) ==
  LET b == running[w].blk
      woken == entries[b].waiters
  IN /\ entries' = Evict(entries, b)
     /\ evicted' = {}
     /\ callers' = [c \in Callers |->
                      IF c \in woken
                        THEN [callers[c] EXCEPT !.pc = "idle", !.blk = None,
                                                !.err = TRUE]
                        ELSE callers[c]]

\* the decoder returns to the worker thread
WorkerFinish(w) ==
  /\ running[w] # NoJob
  /\ running' = [running EXCEPT ![w] = NoJob]
  /\ \/ LoadDone(w)
     \/ LoadFailed(w)
  /\ UNCHANGED <<queue, clock>>
  /\ UNCHANGED nonCacheVars

\* time passes
Tick ==
  /\ clock < MaxClock
  /\ clock' = clock + 1
  /\ evicted' = {}
  /\ UNCHANGED <<entries, callers, queue, running>>
  /\ UNCHANGED nonCacheVars

RECURSIVE EvictAll(_, _)
EvictAll(ents, S) ==
  IF S = {} THEN ents
  ELSE LET b == CHOOSE x \in S : TRUE IN EvictAll(Evict(ents, b), S \ {b})

\* ExpiryTime: the entries with now - last_access >= max_age
Expired(ents) == {b \in Evictable(ents) : clock - ents[b].last_access >= TidyMaxAge}

\* the periodic tidy under ExpiryTime
TidyExpiry ==
  /\ pool = "running"
  /\ Expired(entries) # {}
  /\ entries' = EvictAll(entries, Expired(entries))
  /\ evicted' = Expired(entries)
  /\ UNCHANGED <<callers, queue, running, clock>>
  /\ UNCHANGED nonCacheVars

\* BlockSwappedOut: of the ready buffers the kernel reports swapped out,
\* those a tidy pass may evict
SwappedOut(ents, swapped) == swapped \cap Evictable(ents)

\* the periodic tidy under BlockSwappedOut
TidySwapped ==
  /\ pool = "running"
  /\ \E swapped \in SUBSET ReadyBlocks(entries) :
    /\ SwappedOut(entries, swapped) # {}
    /\ entries' = EvictAll(entries, SwappedOut(entries, swapped))
    /\ evicted' = SwappedOut(entries, swapped)
    /\ UNCHANGED <<callers, queue, running, clock>>
    /\ UNCHANGED nonCacheVars

\* a shutdown that empties the queue: queued foreground jobs are dropped
\* with the background jobs
Shutdown_drops_queue ==
  /\ pool = "running"
  /\ pool' = "stopping"
  /\ LET dropped == {queue[k].blk : k \in 1 .. Len(queue)}
     IN /\ queue' = <<>>
        /\ entries' = EvictAll(entries, dropped)
        /\ callers' = [c \in Callers |->
                         IF callers[c].pc = "waiting" /\ callers[c].blk \in dropped
                           THEN [callers[c] EXCEPT !.pc = "idle", !.blk = None,
                                                   !.err = TRUE]
                           ELSE callers[c]]
  /\ evicted' = {}
  /\ UNCHANGED <<running, clock, main, rice>>
  /\ UNCHANGED facadeVars

\* Shutdown of the worker pool is requested (unmount): the tidy timer
\* stops, the queued background jobs are cancelled, their loading entries
\* removed and their waiters woken with the error; running jobs and queued
\* foreground jobs stay.
Shutdown ==
  /\ pool = "running"
  /\ pool' = "stopping"
  /\ LET dropped == {queue[k].blk : k \in {j \in 1 .. Len(queue) : queue[j].prio = "bg"}}
     IN /\ queue' = SelectSeq(queue, LAMBDA j : j.prio = "fg")
        /\ entries' = EvictAll(entries, dropped)
        /\ callers' = [c \in Callers |->
                         IF callers[c].pc = "waiting" /\ callers[c].blk \in dropped
                           THEN [callers[c] EXCEPT !.pc = "idle", !.blk = None,
                                                   !.err = TRUE]
                           ELSE callers[c]]
  /\ evicted' = {}
  /\ UNCHANGED <<running, clock, main, rice>>
  /\ UNCHANGED facadeVars

\* the worker threads are joined: nothing is queued, nothing runs
Join ==
  /\ pool = "stopping"
  /\ queue = <<>>
  /\ \A w \in Workers : running[w] = NoJob
  /\ pool' = "joined"
  /\ evicted' = {}
  /\ UNCHANGED <<entries, callers, queue, running, clock, main, rice>>
  /\ UNCHANGED facadeVars

Get == \E c \in Callers, b \in Blocks : CacheGet(c, b)
Prefetch == \E b \in Blocks : CachePrefetch(b)
Release == \E c \in Callers : \E h \in callers[c].held : CacheRelease(c, h)
Take == \E w \in Workers : WorkerTake(w)
Finish == \E w \in Workers : WorkerFinish(w)

(***************************************************************************)
(* Inode reader: the sequential-access detector and readahead              *)
(***************************************************************************)
SeqThreshold == 4      \* kDefaultSeqDetectorThreshold
ReadaheadBlocks == 2   \* the readahead byte budget, in blocks

\* the open file the detector watches: /big
SeqInode == 5

\* a detector that has seen no read
NoHistory == [last |-> <<>>, count |-> 0, fired |-> FALSE]

\* the read [off, off + size) is adjacent to or overlaps the last read
Sequential(d, off, size) ==
  /\ d.last # <<>>
  /\ off <= d.last[2]
  /\ off + size >= d.last[1]

\* a detector that counts every read, sequential or not
Feed_no_reset(d, off, size) ==
  LET n == Min(d.count + 1, SeqThreshold)
  IN [last |-> <<off, off + size>>, count |-> n, fired |-> n >= SeqThreshold]

\* Feed the detector with a read: a sequential read adds to the count
\* (which need not be followed past the threshold), any other read starts
\* the count again; the detector fires once the count has reached the
\* threshold.
Feed(d, off, size) ==
  LET n == IF Sequential(d, off, size) THEN Min(d.count + 1, SeqThreshold) ELSE 1
  IN [last |-> <<off, off + size>>, count |-> n, fired |-> n >= SeqThreshold]

\* the distinct blocks of the inode's chunk list, in order
RECURSIVE ChunkBlocks(_)
ChunkBlocks(cs) ==
  IF cs = <<>> THEN <<>>
  ELSE LET rest == ChunkBlocks(Tail(cs))
       IN IF \E k \in 1 .. Len(rest) : rest[k] = Head(cs).blk THEN rest
          ELSE <<Head(cs).blk>> \o rest

\* the blocks the read [off, off + size) touches
TouchedBlocks(i, off, size) ==
  LET segs == WalkChunks(Chunks(i), off, size)
  IN {segs[k].blk : k \in 1 .. Len(segs)}

\* the next N blocks of the chunk list after the last block the read
\* touches
NextBlocks(i, off, size) ==
  LET bs == ChunkBlocks(Chunks(i))
      touched == {k \in 1 .. Len(bs) : bs[k] \in TouchedBlocks(i, off, size)}
      last == IF touched = {} THEN 0
              ELSE CHOOSE k \in touched : \A j \in touched : j <= k
  IN {bs[k] : k \in {j \in 1 .. Len(bs) : j > last /\ j <= last + ReadaheadBlocks}}

RECURSIVE PrefetchAll(_, _, _)
\* cache.prefetch of every block of S: a background load of each block
\* that has no entry
PrefetchAll(ents, q, S) ==
  IF S = {} THEN [ents |-> ents, queue |-> q]
  ELSE LET b == CHOOSE x \in S : \A y \in S : x <= y
       IN IF ents[b].state = "absent"
            THEN PrefetchAll(StartLoad(ents, b, {}), Submit(q, Job(b, "bg")), S \ {b})
            ELSE PrefetchAll(ents, q, S \ {b})

\* step 3 of a read of the open file: feed the detector and, if it fires,
\* prefetch the next blocks; the reader goes on without waiting
ReadFeed ==
  /\ pool = "running"
  /\ \E off \in 0 .. MaxReadOff, size \in 1 .. MaxReadSize :
       LET d == Feed(det, off, size)
           pf == IF d.fired
                   THEN PrefetchAll(entries, queue, NextBlocks(SeqInode, off, size))
                   ELSE [ents |-> entries, queue |-> queue]
       IN /\ det' = d
          /\ entries' = pf.ents
          /\ queue' = pf.queue
  /\ evicted' = {}
  /\ UNCHANGED <<callers, running, clock>>
  /\ UNCHANGED <<opts, req, fi, replies, fscalls, thrown, rd>>
  /\ UNCHANGED <<mainVars, rice>>

\* the caller closes the file: its detector is evicted
CloseFile ==
  /\ det # NoHistory
  /\ det' = NoHistory
  /\ UNCHANGED <<opts, req, fi, replies, fscalls, thrown, rd>>
  /\ UNCHANGED cacheVars
  /\ UNCHANGED <<mainVars, rice>>

(***************************************************************************)
(* dwarfs_main: the command line                                           *)
(***************************************************************************)
MaxOptions == 2   \* options given on one command line
MaxNonopts == 3   \* non-option arguments given on one command line

\* what a non-option argument may be
Paths == {"image.dwarfs", "mnt"}

\* the non-option arguments of a command line, in order
NonoptSeqs == UNION {[1 .. n -> Paths] : n \in 0 .. MaxNonopts}

\* the -o options dwarfs_main parses itself
OptionNames ==
  {"debuglevel", "cachesize", "blocksize", "readahead", "workers", "mlock",
   "decratio", "tidy_strategy", "tidy_interval", "tidy_max_age", "seq_detector"}

\* An option is absent, given with a value its parser accepts ("ok") or
\* given with a value its parser rejects ("bad"); decratio may also be a
\* number outside [0, 1] ("range").
OptionSets ==
  UNION {{[n \in OptionNames |-> IF n \in S THEN v[n] ELSE "absent"] :
            v \in {w \in [S -> {"ok", "bad", "range"}] :
                     \A n \in S : w[n] = "range" => n = "decratio"}} :
         S \in {T \in SUBSET OptionNames : Cardinality(T) <= MaxOptions}}

\* A command line: the -o options, the non-option arguments (image,
\* mountpoint) and whether fuse_parse_cmdline accepts the rest.
ArgSets == [o : OptionSets, nonopts : NonoptSeqs, cmdline : {"ok", "fail"}]
NoArgs == [o |-> [n \in OptionNames |-> "absent"], nonopts |-> << >>, cmdline |-> "ok"]

\* opts.fsimage is a null pointer
NoImage == "null"

\* options as constructed: no image, no mountpoint seen
NoPositionals == [fsimage |-> NoImage, seen_mountpoint |-> 0]

\* an option_hdl that takes every argument before the mountpoint as the image
option_hdl_overwrite(o, arg) ==
  IF o.seen_mountpoint = 1 THEN [ret |-> 0 - 1, opts |-> o]
  ELSE IF o.fsimage # NoImage
    THEN [ret |-> 1, opts |-> [o EXCEPT !.seen_mountpoint = 1, !.fsimage = arg]]
  ELSE [ret |-> 0, opts |-> [o EXCEPT !.fsimage = arg]]

\* option_hdl for a non-option argument (FUSE_OPT_KEY_NONOPT): -1 is an
\* error, 1 keeps the argument for FUSE, 0 drops it
option_hdl(o, arg) ==
  IF o.seen_mountpoint = 1 THEN [ret |-> 0 - 1, opts |-> o]
  ELSE IF o.fsimage # NoImage
    THEN [ret |-> 1, opts |-> [o EXCEPT !.seen_mountpoint = 1]]
  ELSE [ret |-> 0, opts |-> [o EXCEPT !.fsimage = arg]]

RECURSIVE fuse_opt_parse_from(_, _, _)
\* fuse_opt_parse over the non-option arguments: the handler is called on
\* each in turn; the parse stops at the first error
fuse_opt_parse_from(nonopts, o, kept) ==
  IF nonopts = << >> THEN [res |-> 0, opts |-> o, kept |-> kept]
  ELSE LET h == option_hdl(o, Head(nonopts)) IN
       IF h.ret < 0 THEN [res |-> 0 - 1, opts |-> h.opts, kept |-> kept]
       ELSE fuse_opt_parse_from(Tail(nonopts), h.opts,
                                IF h.ret = 1 THEN Append(kept, Head(nonopts)) ELSE kept)

\* fuse_opt_parse(&args, &userdata.opts, dwarfs_opts, option_hdl)
fuse_opt_parse(args) == fuse_opt_parse_from(args.nonopts, NoPositionals, << >>)

\* the non-option arguments fuse_parse_cmdline finds: the ones kept, or all
\* of them when fuse_opt_parse failed (its result is not looked at, and a
\* failed parse leaves the argument list as it was)
FuseArgs(args) ==
  IF fuse_opt_parse(args).res < 0 THEN args.nonopts ELSE fuse_opt_parse(args).kept

\* option_hdl: the first non-option argument is the image and is dropped,
\* the second is the mountpoint and is left for fuse_parse_cmdline
seen_mountpoint(args) == fuse_opt_parse(args).opts.seen_mountpoint = 1
\* fuse_parse_cmdline takes one non-option argument, the mountpoint
fuse_mountpoint(args) == Len(FuseArgs(args)) = 1

\* what dwarfs_main does with the command line: it returns `exit`, lets an
\* exception out (thrown) or goes on to load the image (go)
Returns(code) == [go |-> FALSE, thrown |-> FALSE, exit |-> code]
Throws == [go |-> FALSE, thrown |-> TRUE, exit |-> 0]
GoesOn == [go |-> TRUE, thrown |-> FALSE, exit |-> 0]

\* the options parsed one after the other at the head of the try block
TryParsed == <<"debuglevel", "cachesize", "blocksize", "readahead", "workers",
               "mlock", "decratio">>

\* a parser of the try block throws: caught by the catch clauses
TryBlockThrows(o) ==
  \/ \E k \in 1 .. Len(TryParsed) : o[TryParsed[k]] = "bad"
  \/ /\ o["tidy_strategy"] = "ok"
     /\ o["tidy_interval"] = "bad" \/ o["tidy_max_age"] = "bad"

DefaultTidyInterval == 5   \* block_cache_tidy_interval, minutes
DefaultTidyMaxAge == 10    \* block_cache_tidy_max_age, minutes
UserMinutes == 1           \* the time a user gives with tidy_interval or tidy_max_age

\* the options struct as constructed: no strategy, 5 and 10 minutes
DefaultTidyOpts ==
  [strategy |-> "none", interval |-> DefaultTidyInterval, max_age |-> DefaultTidyMaxAge]

\* a parse that reads the two times whether or not a strategy is given
ParseTidyOptions_unnested(o) ==
  [strategy |-> IF o["tidy_strategy"] = "ok" THEN "user" ELSE "none",
   interval |-> IF o["tidy_interval"] = "ok" THEN UserMinutes ELSE DefaultTidyInterval,
   max_age  |-> IF o["tidy_max_age"] = "ok" THEN UserMinutes ELSE DefaultTidyMaxAge]

\* the tidy options after the try block: the strategy the user names, and
\* under a given strategy the times the user gives; the two times are
\* looked at only when a strategy is given
ParseTidyOptions(o) ==
  IF o["tidy_strategy"] = "ok"
    THEN [strategy |-> "user",
          interval |-> IF o["tidy_interval"] = "ok" THEN UserMinutes
                       ELSE DefaultTidyInterval,
          max_age  |-> IF o["tidy_max_age"] = "ok" THEN UserMinutes
                       ELSE DefaultTidyMaxAge]
    ELSE DefaultTidyOpts

\* the tidy options the user gave with a value their parser accepts
TidyGiven(o) == {n \in {"tidy_strategy", "tidy_interval", "tidy_max_age"} : o[n] = "ok"}

\* set_cache_tidy_config has not been called
NoTidyConfig == [strategy |-> "unset", interval |-> 0, expiry_time |-> 0]

\* dwarfs_main up to load_filesystem
ParseCommandLine(args) ==
  LET o == args.o IN
  IF args.cmdline = "fail" \/ ~fuse_mountpoint(args) THEN Returns(1)
  ELSE IF \E k \in 1 .. Len(TryParsed) : o[TryParsed[k]] = "bad" THEN Returns(1)
  ELSE IF o["tidy_strategy"] = "bad" THEN Returns(1)
  ELSE IF TryBlockThrows(o) THEN Returns(1)
  ELSE IF o["decratio"] = "range" THEN Returns(1)
  ELSE IF o["seq_detector"] = "bad" THEN Throws
  ELSE IF ~seen_mountpoint(args) THEN Returns(1)
  ELSE GoesOn

(***************************************************************************)
(* dwarfs_main, load_filesystem, run_fuse and op_init                      *)
(***************************************************************************)
\* the process before dwarfs_main has looked at its arguments
MainStart ==
  [pc |-> "start", args |-> NoArgs, exit |-> 0, thrown |-> FALSE,
   loaded |-> FALSE, init_workers |-> FALSE, session |-> FALSE,
   sighandlers |-> FALSE, mounted |-> FALSE, daemonized |-> FALSE,
   inited |-> FALSE, init_calls |-> <<>>, err |-> 1, steps |-> <<>>,
   positionals |-> NoPositionals, image |-> NoImage,
   tidy_given |-> {}, tidy_opts |-> DefaultTidyOpts, tidy |-> NoTidyConfig]

\* the process inside the session loop, after the kernel's INIT
MainServing ==
  [MainStart EXCEPT !.pc = "loop", !.loaded = TRUE, !.session = TRUE,
                    !.positionals = [fsimage |-> "image.dwarfs", seen_mountpoint |-> 1],
                    !.image = "image.dwarfs",
                    !.sighandlers = TRUE, !.mounted = TRUE,
                    !.daemonized = TRUE, !.inited = TRUE,
                    !.steps = <<"session_new", "set_signal_handlers", "mount",
                                "daemonize">>,
                    !.init_calls = <<"set_num_workers", "set_cache_tidy_config">>,
                    !.tidy = [strategy |-> "none", interval |-> DefaultTidyInterval,
                              expiry_time |-> DefaultTidyMaxAge]]

\* what fuse_session_loop may return: 0, a signal number, a negated errno
LoopResults == {0, 2, 0 - EIO}

\* dwarfs_main leaves: by return or by exception
Leave(m, res) == [m EXCEPT !.pc = "exited", !.exit = res.exit, !.thrown = res.thrown]

\* dwarfs_main from its entry to the call of load_filesystem
ParseArgs ==
  /\ main.pc = "start"
  /\ \E args \in ArgSets :
       LET res == ParseCommandLine(args)
           m == [main EXCEPT !.args = args, !.tidy_given = TidyGiven(args.o),
                             !.positionals = fuse_opt_parse(args).opts,
                             !.tidy_opts = IF res.go THEN ParseTidyOptions(args.o)
                                           ELSE DefaultTidyOpts]
       IN main' = IF res.go THEN [m EXCEPT !.pc = "load"] ELSE Leave(m, res)
  /\ UNCHANGED <<pool, facadeVars, cacheVars, rice>>

\* load_filesystem constructing the filesystem with init_workers = true:
\* the constructor spawns the worker threads
LoadFilesystem_init_workers ==
  /\ main.pc = "load"
  /\ \/ /\ main' = [main EXCEPT !.pc = "session_new", !.loaded = TRUE,
                                !.init_workers = TRUE, !.args = NoArgs,
                                !.image = main.positionals.fsimage]
        /\ pool' = "running"
     \/ /\ main' = Leave(main, Returns(1))
        /\ pool' = pool
  /\ UNCHANGED <<facadeVars, cacheVars, rice>>

\* load_filesystem: the filesystem is constructed with init_workers = false
\* (the pool exists, its threads do not), or the constructor throws and
\* dwarfs_main returns 1
LoadFilesystem ==
  /\ main.pc = "load"
  /\ \/ main' = [main EXCEPT !.pc = "session_new", !.loaded = TRUE,
                             !.init_workers = FALSE, !.args = NoArgs,
                             !.image = main.positionals.fsimage]
     \/ main' = Leave(main, Returns(1))
  /\ UNCHANGED <<pool, facadeVars, cacheVars, rice>>

\* run_fuse: fuse_session_new
SessionNew ==
  /\ main.pc = "session_new"
  /\ \/ main' = [main EXCEPT !.pc = "set_signal_handlers", !.session = TRUE,
                             !.steps = Append(@, "session_new")]
     \/ main' = [main EXCEPT !.pc = "return"]
  /\ UNCHANGED <<pool, facadeVars, cacheVars, rice>>

\* run_fuse: fuse_set_signal_handlers
SetSignalHandlers ==
  /\ main.pc = "set_signal_handlers"
  /\ \/ main' = [main EXCEPT !.pc = "mount", !.sighandlers = TRUE,
                             !.steps = Append(@, "set_signal_handlers")]
     \/ main' = [main EXCEPT !.pc = "destroy"]
  /\ UNCHANGED <<pool, facadeVars, cacheVars, rice>>

\* run_fuse: fuse_session_mount
SessionMount ==
  /\ main.pc = "mount"
  /\ \/ main' = [main EXCEPT !.pc = "daemonize", !.mounted = TRUE,
                             !.steps = Append(@, "mount")]
     \/ main' = [main EXCEPT !.pc = "remove_signal_handlers"]
  /\ UNCHANGED <<pool, facadeVars, cacheVars, rice>>

\* a run_fuse that leaves the mount behind when fuse_daemonize fails
Daemonize_skip_unmount ==
  /\ main.pc = "daemonize"
  /\ \/ main' = [main EXCEPT !.pc = "loop", !.daemonized = TRUE,
                             !.steps = Append(@, "daemonize")]
     \/ main' = [main EXCEPT !.pc = "remove_signal_handlers"]
  /\ UNCHANGED <<pool, facadeVars, cacheVars, rice>>

\* run_fuse: fuse_daemonize
Daemonize ==
  /\ main.pc = "daemonize"
  /\ \/ main' = [main EXCEPT !.pc = "loop", !.daemonized = TRUE,
                             !.steps = Append(@, "daemonize")]
     \/ main' = [main EXCEPT !.pc = "unmount"]
  /\ UNCHANGED <<pool, facadeVars, cacheVars, rice>>

\* op_init: the session loop handles the kernel's INIT, the first message
\* of a session; set_num_workers starts the worker threads
OpInit ==
  /\ main.pc = "loop"
  /\ ~main.inited
  /\ main' = [main EXCEPT !.inited = TRUE,
                          !.init_calls = <<"set_num_workers", "set_cache_tidy_config">>,
                          !.tidy = [strategy |-> main.tidy_opts.strategy,
                                    interval |-> main.tidy_opts.interval,
                                    expiry_time |-> main.tidy_opts.max_age]]
  /\ pool' = "running"
  /\ UNCHANGED <<facadeVars, cacheVars, rice>>

\* run_fuse: fuse_session_loop returns
LoopExit ==
  /\ main.pc = "loop"
  /\ req.op = "none"
  /\ \E e \in LoopResults : main' = [main EXCEPT !.pc = "unmount", !.err = e,
                                                   !.steps = Append(@, "loop")]
  /\ UNCHANGED <<pool, facadeVars, cacheVars, rice>>

\* run_fuse: fuse_session_unmount
SessionUnmount ==
  /\ main.pc = "unmount"
  /\ main' = [main EXCEPT !.pc = "remove_signal_handlers", !.mounted = FALSE,
                          !.steps = Append(@, "unmount")]
  /\ UNCHANGED <<pool, facadeVars, cacheVars, rice>>

\* run_fuse: fuse_remove_signal_handlers
RemoveSignalHandlers ==
  /\ main.pc = "remove_signal_handlers"
  /\ main' = [main EXCEPT !.pc = "destroy", !.sighandlers = FALSE,
                          !.steps = Append(@, "remove_signal_handlers")]
  /\ UNCHANGED <<pool, facadeVars, cacheVars, rice>>

\* run_fuse: fuse_session_destroy
SessionDestroy ==
  /\ main.pc = "destroy"
  /\ main' = [main EXCEPT !.pc = "return", !.session = FALSE,
                          !.steps = Append(@, "destroy")]
  /\ UNCHANGED <<pool, facadeVars, cacheVars, rice>>

\* run_fuse returns err and dwarfs_main returns it
Return ==
  /\ main.pc = "return"
  /\ main' = Leave(main, Returns(main.err))
  /\ UNCHANGED <<pool, facadeVars, cacheVars, rice>>

(***************************************************************************)
(* ricepp: compute_best_split and encode_block                             *)
(* (src/ricepp/include/ricepp/detail/encode.h)                             *)
(***************************************************************************)
MaxBlockSize == 2   \* pixels in a block

\* PixelTraits::kBitCount: the bits of a pixel. 8 is uint8_t; 4 is the same
\* arithmetic on a narrower word.
PixelWidths == {4, 8}

RECURSIVE Pow2(_)
Pow2(n) == IF n = 0 THEN 1 ELSE 2 * Pow2(n - 1)

\* the pixel values a block is made of: the values around zero, around the
\* sign bit and around the maximum
Pixels(w) == {0, 1, 2, 3, Pow2(w - 1) - 1, Pow2(w - 1), Pow2(w) - 2, Pow2(w) - 1}

\* the blocks handed to encode_block
PixelBlocks(w) == UNION {[1 .. n -> Pixels(w)] : n \in 0 .. MaxBlockSize}

\* traits.read: the pixel in host byte order; with "swapped" traits the two
\* halves of the word are exchanged
Traits == {"native", "swapped"}
traits_read(w, traits, x) ==
  IF traits = "native" THEN x
  ELSE (x % Pow2(w \div 2)) * Pow2(w \div 2) + x \div Pow2(w \div 2)

RECURSIVE countr_zero(_)
\* std::countr_zero of a positive number
countr_zero(n) == IF n % 2 = 1 THEN 0 ELSE 1 + countr_zero(n \div 2)

RECURSIVE bit_width(_)
\* 64 - std::countl_zero(n) of a 64-bit number
bit_width(n) == IF n = 0 THEN 0 ELSE 1 + bit_width(n \div 2)

kFsBits(w) == countr_zero(w)
kFsMax(w) == w - 2
kPixelMsb(w) == Pow2(w - 1)

\* delta[i]: the difference to the previous pixel in the pixel's width, its
\* sign folded into the lowest bit
MapDiff(w, pixel, last) ==
  LET diff == (pixel - last) % Pow2(w)
  IN IF diff >= kPixelMsb(w) THEN (0 - (2 * diff) - 1) % Pow2(w) ELSE 2 * diff

RECURSIVE MapBlock(_, _, _, _)
\* the first loop of encode_block: the deltas of the block, in order
MapBlock(w, traits, block, last) ==
  IF block = << >> THEN << >>
  ELSE LET pixel == traits_read(w, traits, Head(block))
       IN << MapDiff(w, pixel, last) >> \o MapBlock(w, traits, Tail(block), pixel)

RECURSIVE SeqSum(_)
SeqSum(q) == IF q = << >> THEN 0 ELSE Head(q) + SeqSum(Tail(q))

\* bits_for_fs: the bits the block takes when split at fs
bits_for_fs(delta, fs) ==
  LET masked == [i \in 1 .. Len(delta) |-> (delta[i] \div Pow2(fs)) * Pow2(fs)]
  IN Len(delta) * (fs + 1) + SeqSum(masked) \div Pow2(fs)

RECURSIVE split_search(_, _, _, _, _)
\* the while loop of compute_best_split
split_search(delta, FsMax, cand_fs, bits, direction) ==
  IF cand_fs > 0 /\ cand_fs < FsMax
    THEN LET tmp == bits_for_fs(delta, cand_fs + direction)
         IN IF tmp > bits THEN [fs |-> cand_fs, bits |-> bits]
            ELSE split_search(delta, FsMax, cand_fs + direction, tmp, direction)
    ELSE [fs |-> cand_fs, bits |-> bits]

\* compute_best_split<FsMax>(delta, size, sum), size > 0
compute_best_split(delta, FsMax, sum) ==
  LET start_fs == 64 - Min(64, (64 - bit_width(sum \div Len(delta))) + 2)
      bits0 == bits_for_fs(delta, start_fs)
      bits1 == bits_for_fs(delta, start_fs + 1)
      cand_fs == IF bits1 <= bits0 THEN start_fs + 1 ELSE start_fs
      bits == IF bits1 <= bits0 THEN bits1 ELSE bits0
      direction == IF bits1 <= bits0 THEN 1 ELSE 0 - 1
  IN IF bits0 # bits1 THEN split_search(delta, FsMax, cand_fs, bits, direction)
     ELSE [fs |-> cand_fs, bits |-> bits]

\* writer.write_bits(value, n)
WriteBits(value, n) == [value |-> value, n |-> n]

\* the entropy coding of one delta: top zero bits, a one bit, fs low bits
RiceCode(diff, fs) ==
  (IF diff \div Pow2(fs) > 0 THEN << WriteBits(0, diff \div Pow2(fs)) >> ELSE << >>)
    \o << WriteBits(1, 1), WriteBits(diff % Pow2(fs), fs) >>

RECURSIVE RiceCodes(_, _)
RiceCodes(delta, fs) ==
  IF delta = << >> THEN << >> ELSE RiceCode(Head(delta), fs) \o RiceCodes(Tail(delta), fs)

\* an encode_block that entropy-codes whatever the split is
encode_block_never_plain(w, traits, block, last_value) ==
  LET delta == MapBlock(w, traits, block, last_value)
      sum == SeqSum(delta)
      last == IF block = << >> THEN last_value
              ELSE traits_read(w, traits, block[Len(block)])
  IN IF sum = 0
       THEN [written |-> << WriteBits(0, kFsBits(w)) >>, last_value |-> last]
     ELSE LET split == compute_best_split(delta, kFsMax(w), sum)
          IN [written |-> << WriteBits(split.fs + 1, kFsBits(w)) >>
                            \o RiceCodes(delta, split.fs),
              last_value |-> last]

\* encode_block(block, writer, traits, last_value): what it writes, and
\* last_value after it
encode_block(w, traits, block, last_value) ==
  LET delta == MapBlock(w, traits, block, last_value)
      sum == SeqSum(delta)
      last == IF block = << >> THEN last_value
              ELSE traits_read(w, traits, block[Len(block)])
  IN IF sum = 0
       THEN [written |-> << WriteBits(0, kFsBits(w)) >>, last_value |-> last]
     ELSE LET split == compute_best_split(delta, kFsMax(w), sum)
          IN IF split.fs >= kFsMax(w) \/ split.bits >= w * Len(block)
               THEN [written |-> << WriteBits(kFsMax(w) + 1, kFsBits(w)) >>
                                 \o [i \in 1 .. Len(block) |-> WriteBits(block[i], w)],
                     last_value |-> last]
             ELSE [written |-> << WriteBits(split.fs + 1, kFsBits(w)) >>
                               \o RiceCodes(delta, split.fs),
                   last_value |-> last]

\* no encoder
NoRice == [pc |-> "none", w |-> 0, traits |-> "native", block |-> << >>,
           before |-> 0, last_value |-> 0, written |-> << >>]

\* an encoder that is handed its first block
RiceInputs ==
  UNION {[pc : {"input"}, w : {w}, traits : Traits, block : PixelBlocks(w),
          before : {0}, last_value : Pixels(w), written : {<< >>}] : w \in PixelWidths}

\* encode_block on the block at hand
EncodeBlock ==
  /\ rice.pc = "input"
  /\ LET r == encode_block(rice.w, rice.traits, rice.block, rice.last_value)
     IN rice' = [rice EXCEPT !.pc = "encoded", !.before = rice.last_value,
                             !.last_value = r.last_value, !.written = r.written]
  /\ UNCHANGED <<facadeVars, cacheVars, mainVars>>

\* the caller hands the next block of the image to the encoder
NextBlock ==
  /\ rice.pc = "encoded"
  /\ \E block \in PixelBlocks(rice.w) :
       rice' = [rice EXCEPT !.pc = "input", !.block = block, !.before = 0,
                            !.written = << >>]
  /\ UNCHANGED <<facadeVars, cacheVars, mainVars>>

(***************************************************************************)
(* Specifications                                                          *)
(***************************************************************************)
\* the process at the entry of dwarfs_main
Init ==
  /\ FacadeInit /\ CacheInit
  /\ main = MainStart
  /\ pool = "deferred"
  /\ rice = NoRice

\* the mounted driver: the session loop has handled INIT
ServingInit ==
  /\ FacadeInit /\ CacheInit
  /\ main = MainServing
  /\ pool = "running"
  /\ rice = NoRice

\* the driver serving requests
Next ==
  \/ Lookup
  \/ Getattr
  \/ AccessOp
  \/ ReadlinkOp
  \/ Open
  \/ Read
  \/ Readdir
  \/ Complete

Spec == ServingInit /\ [][Next]_vars

\* every request of the low-level interface, and reads whose reply is not
\* delivered
RepliesNext ==
  \/ Lookup
  \/ Getattr
  \/ AccessOp
  \/ ReadlinkOp
  \/ Open
  \/ Read
  \/ ReadUndelivered
  \/ Readdir
  \/ Statfs
  \/ Getxattr
  \/ Listxattr
  \/ Complete

SpecReplies == ServingInit /\ [][RepliesNext]_vars

\* the driver serving extended-attribute requests
XattrNext ==
  \/ Getxattr
  \/ Listxattr
  \/ Complete

SpecXattr == ServingInit /\ [][XattrNext]_vars

\* a client listing directories through the driver
ListingNext ==
  \/ ListStart
  \/ ListNext
  \/ Complete

SpecListing == ServingInit /\ [][ListingNext]_vars

\* the block cache under concurrent readers
CacheNext ==
  \/ Get
  \/ Prefetch
  \/ Release
  \/ Take
  \/ Finish
  \/ Tick
  \/ TidyExpiry
  \/ TidySwapped

\* the cache serves a driver started with its default options
CacheSpecInit == ServingInit /\ opts.cache_files = 1 /\ opts.perfmon = "disabled"

SpecCache == CacheSpecInit /\ [][CacheNext]_vars

\* the block cache and its worker pool up to the end of the pool
PoolNext ==
  \/ Get
  \/ Prefetch
  \/ Release
  \/ Take
  \/ Finish
  \/ Tick
  \/ TidyExpiry
  \/ TidySwapped
  \/ Shutdown
  \/ Join

SpecPool == CacheSpecInit /\ [][PoolNext]_vars

\* readers and workers of a cache without periodic tidy (tidy strategy
\* none, the driver's default)
UnpinNext ==
  \/ Get
  \/ Release
  \/ Take
  \/ Finish

\* a worker thread that can take a job does, and every decoder invocation
\* returns
SpecUnpin ==
  /\ CacheSpecInit
  /\ [][UnpinNext]_vars
  /\ WF_vars(Take)
  /\ \A w \in Workers : WF_vars(WorkerFinish(w))

\* reads of one open file feeding its detector, and the loads they start
ReadaheadNext ==
  \/ ReadFeed
  \/ CloseFile
  \/ Take
  \/ Finish

SpecReadahead == CacheSpecInit /\ [][ReadaheadNext]_vars

\* the process from the entry of dwarfs_main to its return
MainNext ==
  \/ ParseArgs
  \/ LoadFilesystem
  \/ SessionNew
  \/ SetSignalHandlers
  \/ SessionMount
  \/ Daemonize
  \/ OpInit
  \/ LoopExit
  \/ SessionUnmount
  \/ RemoveSignalHandlers
  \/ SessionDestroy
  \/ Return
  \/ Lookup
  \/ Getattr
  \/ AccessOp
  \/ ReadlinkOp
  \/ Open
  \/ Read
  \/ Readdir
  \/ Complete

SpecMain == Init /\ [][MainNext]_vars

\* the Rice encoder over the blocks of an image
RiceInit ==
  /\ FacadeInit /\ CacheInit
  /\ opts.cache_files = 1 /\ opts.perfmon = "disabled"
  /\ main = MainStart
  /\ pool = "deferred"
  /\ rice \in RiceInputs

RiceNext ==
  \/ EncodeBlock
  \/ NextBlock

SpecRice == RiceInit /\ [][RiceNext]_vars

(***************************************************************************)
(* Properties of the driver                                                *)
(***************************************************************************)
\* the inode the request's fuse inode number resolves to, or None
Resolved == IF req.op = "lookup" THEN FindName(req.ino, req.name) ELSE Find(req.ino)

\* the request's open flags, read bit by bit
WriteMode == req.flags % 4 \in {O_WRONLY, O_RDWR}
ReadOnlyFlags ==
  /\ req.flags % 4 = 0
  /\ (req.flags \div O_TRUNC) % 2 = 0
  /\ (req.flags \div O_APPEND) % 2 = 0

\* an open request found its inode (find returned, with or without entry)
OpenServed == req.op = "open" /\ req.fault = "none"

\* C5: an open of a directory inode is answered with EISDIR and nothing
\* else, whatever its flags are, and leaves the caller's file handle as it
\* was.
OpenDirIsDir ==
  (OpenServed /\ Resolved # None /\ InodeType(Resolved) = "directory")
    => /\ replies = << Reply("err", EISDIR) >>
       /\ fi = FileInfo(req.flags, 0)

OpenDirWitness ==
  /\ OpenServed /\ Resolved # None /\ InodeType(Resolved) = "directory"
  /\ req.flags = O_WRONLY + O_TRUNC
  /\ replies = << Reply("err", EISDIR) >>

\* C6 as stated: an open whose access mode is O_WRONLY or O_RDWR is
\* answered with EACCES, for every inode argument.
OpenWriteAlwaysDenied ==
  (OpenServed /\ WriteMode) => replies = << Reply("err", EACCES) >>

\* C6 amended: an open whose access mode is O_WRONLY or O_RDWR is answered
\* with EACCES when the inode exists and is not a directory, with EISDIR
\* when it is a directory and with ENOENT when it does not exist.
OpenWriteDenied ==
  (OpenServed /\ WriteMode)
    => replies = << Reply("err",
                          IF Resolved = None THEN ENOENT
                          ELSE IF InodeType(Resolved) = "directory" THEN EISDIR
                          ELSE EACCES) >>

OpenWriteWitness ==
  /\ OpenServed /\ req.flags = O_RDWR
  /\ Resolved # None /\ InodeType(Resolved) = "regular"
  /\ replies = << Reply("err", EACCES) >>

\* C7: for an existing inode that is no directory, open succeeds exactly
\* when the access mode is O_RDONLY and neither O_APPEND nor O_TRUNC is
\* set, and is answered with EACCES otherwise; on success the handle is the
\* entry's inode number, direct_io is the negation of cache_files and
\* keep_cache is cache_files.
OpenReadOnly ==
  (OpenServed /\ Resolved # None /\ InodeType(Resolved) # "directory")
    => IF ReadOnlyFlags
         THEN /\ replies = << Reply("open", fi) >>
              /\ fi = [flags |-> req.flags, fh |-> req.ino - FUSE_ROOT_ID,
                       direct_io |-> 1 - opts.cache_files,
                       keep_cache |-> opts.cache_files]
         ELSE /\ replies = << Reply("err", EACCES) >>

OpenReadOnlyWitness ==
  /\ OpenServed /\ Resolved # None /\ InodeType(Resolved) = "symlink"
  /\ req.flags = O_RDONLY + 2048
  /\ opts.cache_files = 0
  /\ replies = << Reply("open", fi) >>
  /\ fi.direct_io = 1

\* C10: when find resolves no entry, lookup, getattr, access, readlink,
\* open and readdir answer with ENOENT and with nothing else, and call none
\* of getattr, access, readlink, opendir.
NoEntryReply ==
  (/\ req.op \in {"lookup", "getattr", "access", "readlink", "open", "readdir"}
   /\ req.fault = "none"
   /\ Resolved = None)
    => /\ replies = << Reply("err", ENOENT) >>
       /\ \A k \in 1 .. Len(fscalls) :
            fscalls[k] \notin {"getattr", "access", "readlink", "opendir",
                               "dirsize", "readdir"}

NoEntryWitness ==
  /\ req.op = "lookup" /\ req.fault = "none"
  /\ req.ino = FUSE_ROOT_ID /\ req.name = "nope"
  /\ replies = << Reply("err", ENOENT) >>
  /\ fscalls = <<"find">>

\* C9: a read of a regular file through its handle is answered with one
\* scatter-gather reply whose segments, each inside one block, concatenate
\* to the file's bytes in [off, min(off + size, file size)): size bytes
\* unless the file ends first, none at or past the end of the file.
ReadRoundTrip ==
  (/\ req.op = "read" /\ req.fault = "none"
   /\ FUSE_ROOT_ID + req.fh = req.ino
   /\ Resolved # None /\ InodeType(Resolved) = "regular")
    => /\ Len(replies) = 1
       /\ replies[1].kind = "iov"
       /\ LET segs == replies[1].val
              want == SubSeq(FileBytes(Resolved), req.off + 1,
                             Min(req.off + req.size, FileSize(Resolved)))
          IN /\ SegsBytes(segs) = want
             /\ \A k \in 1 .. Len(segs) :
                  /\ segs[k].len > 0
                  /\ segs[k].blk \in Blocks
                  /\ segs[k].off + segs[k].len <= BlockSize
             /\ req.off + req.size <= FileSize(Resolved) => SumLen(segs) = req.size
             /\ req.off >= FileSize(Resolved) => segs = <<>>

ReadRoundTripWitness ==
  /\ req.op = "read" /\ req.fault = "none"
  /\ req.ino = FUSE_ROOT_ID + 5 /\ req.fh = 5
  /\ req.off = 3 /\ req.size = 5
  /\ Len(replies) = 1
  /\ replies[1].kind = "iov"
  /\ Len(replies[1].val) = 2
  /\ SegsBytes(replies[1].val) = <<4, 11, 12, 13, 14>>

\* what a complete listing of directory d looks like to the client
Listing(d) ==
  [k \in 1 .. Dirsize(d) |->
     [name |-> DirEntries(d)[k].name,
      ino |-> DirEntries(d)[k].inode + FUSE_ROOT_ID, off |-> k]]

\* C8 as stated: when the client gets its first empty reply, it has
\* received every entry of the directory, once and in order.
ListingComplete == rd.done => rd.got = Listing(Find(rd.ino))

\* C8 amended: what the client has received is always the first entries of
\* the directory, once and in order, and when a call whose buffer could
\* hold the next entry gets an empty reply, the client has received every
\* entry.
ListingCompleteIfFits ==
  LET d == Find(rd.ino) IN
  /\ rd.off <= Dirsize(d)
  /\ rd.got = SubSeq(Listing(d), 1, rd.off)
  /\ (/\ rd.done /\ req.op = "readdir"
      /\ \/ req.off >= Dirsize(d)
         \/ req.size >= fuse_add_direntry(ReaddirAt(d, req.off).name))
       => rd.got = Listing(d)

ListingWitness ==
  /\ rd.done /\ req.op = "readdir"
  /\ rd.ino = FUSE_ROOT_ID
  /\ req.size = 40 /\ req.off = 4
  /\ Len(rd.got) = 4
  /\ replies = << Reply("buf", [entries |-> <<>>, size |-> 0]) >>

(***************************************************************************)
(* Properties of the block cache                                           *)
(***************************************************************************)
\* the decodes of block b that are queued or running
JobsFor(b) ==
  Cardinality({k \in 1 .. Len(queue) : queue[k].blk = b})
    + Cardinality({w \in Workers : running[w].blk = b})

\* the readers asleep in a get of block b
WaitingFor(b) == {c \in Callers : callers[c].pc = "waiting" /\ callers[c].blk = b}

\* the handles on block b that readers hold
HandlesOn(b) == {<<c, h>> \in Callers \X UNION {callers[c].held : c \in Callers} :
                   h \in callers[c].held /\ h.blk = b}

\* no load is queued or running
Quiescent ==
  /\ queue = <<>>
  /\ \A w \in Workers : running[w] = NoJob
  /\ \A b \in Blocks : entries[b].state # "loading"

\* C1: whatever gets and prefetches of a block interleave, one decode is
\* queued or running exactly while its entry is loading and none otherwise,
\* the decoder is invoked at most once for an entry, every reader asleep in
\* a get of the block is a waiter of that one load, and all handles on the
\* block point at the one buffer of its entry.
SingleFlight ==
  \A b \in Blocks :
    /\ JobsFor(b) = IF entries[b].state = "loading" THEN 1 ELSE 0
    /\ entries[b].decodes <= 1
    /\ entries[b].state = "loading" =>
         entries[b].decodes = Cardinality({w \in Workers : running[w].blk = b})
    /\ WaitingFor(b) = entries[b].waiters
    /\ \A p \in HandlesOn(b) :
         entries[b].state = "ready" /\ p[2].buf = entries[b].buf

SingleFlightWitness ==
  \E b \in Blocks :
    /\ entries[b].state = "loading"
    /\ entries[b].waiters = Callers
    /\ entries[b].decodes = 1
    /\ JobsFor(b) = 1

\* C2: no step evicts an entry that is pinned: an entry with a pinned
\* count above zero, and every entry a reader holds a handle on, is ready
\* with the same buffer after the step, whether the step is the tidy at the
\* end of a load or a periodic tidy.
PinSafety ==
  [][\A b \in Blocks :
       (entries[b].state = "ready"
          /\ (entries[b].pinned > 0 \/ HandlesOn(b) # {}))
         => /\ entries'[b].state = "ready"
            /\ entries'[b].buf = entries[b].buf
            /\ b \notin evicted']_vars

PinSafetyWitness ==
  /\ evicted # {}
  /\ \E b \in Blocks :
       /\ entries[b].state = "ready"
       /\ entries[b].pinned > 0
       /\ HandlesOn(b) # {}
       /\ clock - entries[b].last_access >= TidyMaxAge
       /\ \A a \in Blocks \ {b} : entries[a].state = "absent"

DecodeFailure ==
  /\ [](\A c \in Callers :
          callers[c].pc = "waiting"
            => /\ entries[callers[c].blk].state = "loading"
               /\ c \in entries[callers[c].blk].waiters
               /\ JobsFor(callers[c].blk) >= 1)
  /\ [][/\ \A w \in Workers :
             LET b == running[w].blk IN
             (running[w] # NoJob /\ running'[w] = NoJob
                /\ entries'[b].state # "ready")
               => /\ entries'[b] = AbsentEntry
                  /\ \A c \in entries[b].waiters :
                       /\ callers'[c].pc = "idle"
                       /\ callers'[c].err
                       /\ \A h \in callers'[c].held : h.blk # b
        /\ \A c \in Callers :
             (callers[c].pc = "idle" /\ callers'[c].pc = "waiting"
                /\ entries[callers'[c].blk].state = "absent")
               => /\ entries'[callers'[c].blk].state = "loading"
                  /\ entries'[callers'[c].blk].decodes = 0
                  /\ Len(queue') = Len(queue) + 1]_vars

DecodeFailureWitness ==
  /\ \A c \in Callers : callers[c].pc = "idle" /\ callers[c].err
  /\ \A b \in Blocks : entries[b].state = "absent"
  /\ Quiescent

(***************************************************************************)
(* Properties of the driver: errors                                        *)
(***************************************************************************)
\* the errnos of the error kinds a handler reports
ErrorCodes == {ENOENT, EIO, EBADF, EACCES, ENOTDIR, EISDIR, EINVAL}

\* the request's filesystem call threw
Faulted == req.op # "none" /\ req.fault # "none" /\ fscalls # <<>>

\* C11: no exception leaves a handler; when a filesystem call throws, the
\* one reply is an error: the errno the system_error carries, or EIO for
\* any other exception; and every error a handler reports is zero or the
\* errno of an error kind.
NoExceptionEscapes ==
  /\ thrown = "none"
  /\ Faulted => replies = << Reply("err", IF req.fault = "system_error"
                                            THEN req.eno ELSE EIO) >>
  /\ \A k \in 1 .. Len(replies) :
       replies[k].kind = "err" => replies[k].val \in ErrorCodes \cup {0}

NoExceptionEscapesWitness ==
  /\ req.op = "read" /\ req.fault = "exception"
  /\ req.ino = FUSE_ROOT_ID + 4 /\ req.fh = 4
  /\ fscalls = <<"readv">>
  /\ replies = << Reply("err", EIO) >>

(***************************************************************************)
(* Properties of dwarfs_main and run_fuse                                  *)
(***************************************************************************)
\* C12: the filesystem is loaded, with init_workers = false, before the
\* session exists; the worker threads run only after fuse_daemonize and
\* only once op_init has called set_num_workers and then
\* set_cache_tidy_config; and a request is served only after op_init.
WorkersAfterDaemonize ==
  /\ main.session => main.loaded
  /\ main.loaded => ~main.init_workers
  /\ pool # "deferred" => main.daemonized /\ main.inited
  /\ main.inited <=>
       main.init_calls = <<"set_num_workers", "set_cache_tidy_config">>
  /\ main.inited => main.daemonized /\ main.loaded
  /\ req.op # "none" => main.inited /\ pool = "running"

WorkersAfterDaemonizeWitness ==
  /\ main.pc = "loop" /\ main.daemonized /\ main.inited
  /\ pool = "running"
  /\ req.op = "read"
  /\ replies # <<>>

(***************************************************************************)
(* Properties of the worker pool                                           *)
(***************************************************************************)
\* a step in which a job leaves worker w
Leaves(w) == running[w] # NoJob /\ running'[w] # running[w]

\* C13: when shutdown is requested the running jobs and the queued
\* foreground jobs stay and the queued background jobs are dropped; from
\* then on a job leaves the queue only when a worker takes it and leaves a
\* worker only when its load has completed, no background job is taken and
\* no periodic tidy runs; the workers are joined only when nothing is
\* queued and nothing runs.
PoolShutdown ==
  /\ [](pool = "stopping" => \A k \in 1 .. Len(queue) : queue[k].prio = "fg")
  /\ [](pool = "joined" => queue = <<>> /\ \A w \in Workers : running[w] = NoJob)
  /\ [][/\ (pool = "running" /\ pool' = "stopping")
             => /\ queue' = SelectSeq(queue, LAMBDA j : j.prio = "fg")
                /\ running' = running
        /\ (pool = "stopping" /\ queue' # queue)
             => /\ queue' = Tail(queue)
                /\ \E w \in Workers : running[w] = NoJob /\ running'[w] = Head(queue)
        /\ (pool = "stopping")
             => \A w \in Workers :
                  Leaves(w) => /\ running'[w] = NoJob
                               /\ entries[running[w].blk].state = "loading"
                               /\ entries'[running[w].blk].state # "loading"
        /\ (pool # "running" /\ evicted' # {})
             => \E w \in Workers : Leaves(w)
        /\ (pool = "stopping" /\ pool' = "joined")
             => queue = <<>> /\ \A w \in Workers : running[w] = NoJob]_vars

PoolShutdownWitness ==
  /\ pool = "stopping"
  /\ \E k \in 1 .. Len(queue) : queue[k].prio = "fg"
  /\ \E w \in Workers : running[w].prio = "bg"
  /\ \E b \in Blocks : entries[b].state = "ready"

(***************************************************************************)
(* Properties of the tidy pass                                             *)
(***************************************************************************)
\* the access stamp and the pinned count block b has when the load that
\* completes in this step has made its entry ready, before the tidy
StampAtTidy(b) ==
  IF entries[b].state = "loading" THEN clock ELSE entries[b].last_access
PinnedAtTidy(b) ==
  IF entries[b].state = "loading" THEN Cardinality(entries[b].waiters)
  ELSE entries[b].pinned

SequentialReadahead ==
  /\ [](det.fired => det.count >= SeqThreshold)
  /\ [][/\ Len(queue') > Len(queue) =>
             /\ det'.fired
             /\ det'.count >= SeqThreshold
             /\ det.count >= SeqThreshold - 1
             /\ Sequential(det, det'.last[1], det'.last[2] - det'.last[1])
             /\ callers' = callers
             /\ \A k \in 1 .. Len(queue') :
                  (\A j \in 1 .. Len(queue) : queue[j] # queue'[k])
                    => queue'[k].prio = "bg"
        /\ (/\ det'.last # <<>>
            /\ det' # det
            /\ ~Sequential(det, det'.last[1], det'.last[2] - det'.last[1]))
             => /\ det'.count = 1
                /\ ~det'.fired
                /\ queue' = queue
                /\ entries' = entries
        /\ det'.count <= det.count + 1]_vars

SequentialReadaheadWitness ==
  /\ det.fired
  /\ det.count = SeqThreshold
  /\ det.last = <<3, 4>>
  /\ entries[1].state = "loading"
  /\ entries[2].state = "loading"
  /\ \A c \in Callers : callers[c].pc = "idle"

RepliedErr(e) ==
  /\ thrown = "none"
  /\ Len(replies) = 1
  /\ replies[1].kind = "err"
  /\ replies[1].val = e

\* the one reply of the served request carries the data v
RepliedBuf(v) ==
  /\ thrown = "none"
  /\ Len(replies) = 1
  /\ replies[1].kind = "buf"
  /\ replies[1].val = v

\* the one reply of the served request is the length n, without data
RepliedLength(n) ==
  /\ thrown = "none"
  /\ Len(replies) = 1
  /\ replies[1].kind = "xattr"
  /\ replies[1].val = n

\* C17: getxattr of driver.pid or driver.perfmon on an inode other than the
\* root replies ENODATA, getxattr of a name the driver does not know replies
\* ENODATA on every inode, and listxattr on an inode other than the root
\* lists the inodeinfo attribute and nothing else (its length to a probe,
\* the list to a buffer that holds it).
DriverXattrsOnRootOnly ==
  /\ (req.op = "getxattr" /\ req.name \in {pid_xattr, perfmon_xattr}
        /\ req.ino # FUSE_ROOT_ID)
       => RepliedErr(ENODATA)
  /\ (req.op = "getxattr"
        /\ req.name \notin {pid_xattr, perfmon_xattr, inodeinfo_xattr})
       => RepliedErr(ENODATA)
  /\ (req.op = "listxattr" /\ req.ino # FUSE_ROOT_ID)
       => /\ req.size = 0 => RepliedLength(Len(inodeinfo_xattr) + 1)
          /\ req.size >= Len(inodeinfo_xattr) + 1 => RepliedBuf(<<inodeinfo_xattr>>)
          /\ (req.size > 0 /\ req.size < Len(inodeinfo_xattr) + 1) => RepliedErr(ERANGE)

DriverXattrsWitness ==
  /\ req.op = "getxattr"
  /\ req.name = pid_xattr
  /\ req.ino = FUSE_ROOT_ID + 5
  /\ req.size = Len(PidString)
  /\ RepliedErr(ENODATA)

\* C18 as stated: unless a performance monitor is enabled, listxattr on the
\* root does not list driver.perfmon and getxattr of it replies ENODATA.
PerfmonOnlyWhenEnabled ==
  opts.perfmon # "enabled" =>
    /\ (req.op = "listxattr" /\ req.ino = FUSE_ROOT_ID /\ Len(replies) = 1
          /\ replies[1].kind = "buf")
         => \A k \in 1 .. Len(replies[1].val) : replies[1].val[k] # perfmon_xattr
    /\ (req.op = "getxattr" /\ req.ino = FUSE_ROOT_ID /\ req.name = perfmon_xattr)
         => RepliedErr(ENODATA)

\* the text getxattr returns for driver.perfmon on the root
PerfmonText ==
  CASE opts.perfmon = "enabled" -> PerfmonSummary
    [] opts.perfmon = "disabled" -> "performance monitor is disabled\n"
    [] opts.perfmon = "unsupported" -> "no performance monitor support\n"

\* C18 amended: driver.perfmon belongs to the root's attributes whether or
\* not a performance monitor is enabled: listxattr on the root lists pid,
\* perfmon and inodeinfo, and getxattr of driver.perfmon on the root never
\* replies ENODATA: it returns the monitor's summary when one is enabled,
\* "performance monitor is disabled" when none is, and "no performance
\* monitor support" in a build without it.
PerfmonAlwaysOnRoot ==
  /\ (req.op = "listxattr" /\ req.ino = FUSE_ROOT_ID
        /\ req.size >= XattrsSize(<<pid_xattr, perfmon_xattr, inodeinfo_xattr>>))
       => RepliedBuf(<<pid_xattr, perfmon_xattr, inodeinfo_xattr>>)
  /\ (req.op = "getxattr" /\ req.ino = FUSE_ROOT_ID /\ req.name = perfmon_xattr)
       => /\ ~RepliedErr(ENODATA)
          /\ req.size >= Len(PerfmonText) => RepliedBuf(PerfmonText)
          /\ req.size = 0 =>
               RepliedLength(Len(PerfmonText)
                               + (IF opts.perfmon = "enabled" THEN 4096 ELSE 0))

PerfmonDisabledWitness ==
  /\ opts.perfmon = "disabled"
  /\ req.op = "getxattr"
  /\ req.ino = FUSE_ROOT_ID
  /\ req.name = perfmon_xattr
  /\ RepliedBuf("performance monitor is disabled\n")

\* what the handler does with the served request when the buffer size is n
XattrCall(n) ==
  IF req.op = "getxattr" THEN op_getxattr(req.ino, req.name, n, req.fault, req.eno)
  ELSE op_listxattr(req.ino, n)

\* the served request has a value to return: what a buffer of 64 KiB gets
HasXattrValue ==
  /\ req.op \in {"getxattr", "listxattr"}
  /\ XattrCall(65536).thrown = "none"
  /\ XattrCall(65536).ret = 0

XattrValue == XattrCall(65536).replies[1].val

\* the bytes of the value: a text's length, a name list's names with their
\* NULs
XattrValueSize ==
  IF req.op = "getxattr" THEN Len(XattrValue) ELSE XattrsSize(XattrValue)

\* C19: when getxattr or listxattr has a value V to return, a request with
\* size 0 gets one reply, a length of at least |V|, and no data; a request
\* with size >= |V| gets exactly V; a request with 0 < size < |V| gets
\* ERANGE; and a request whose size is the length a probe reported gets V.
XattrSizeNegotiation ==
  HasXattrValue =>
    /\ XattrValueSize > 0
    /\ req.size = 0 =>
         /\ Len(replies) = 1
         /\ replies[1].kind = "xattr"
         /\ replies[1].val >= XattrValueSize
         /\ XattrCall(replies[1].val).replies = << Reply("buf", XattrValue) >>
    /\ req.size >= XattrValueSize => RepliedBuf(XattrValue)
    /\ (req.size > 0 /\ req.size < XattrValueSize) => RepliedErr(ERANGE)

XattrSizeNegotiationWitness ==
  /\ req.op = "getxattr"
  /\ req.name = inodeinfo_xattr
  /\ req.ino = FUSE_ROOT_ID + 5
  /\ req.size = Len(InodeInfoJson(5))
  /\ RepliedBuf(InodeInfoJson(5))

\* the command line has one of the configuration errors: an option value
\* its parser rejects, a decompress ratio outside [0, 1], or no mountpoint
ConfigError(args) ==
  \/ \E n \in OptionNames \ {"debuglevel"} : args.o[n] \in {"bad", "range"}
  \/ ~seen_mountpoint(args)

\* C20: once dwarfs_main has read a command line with a configuration
\* error, it has returned 1: no exception has left it, and it has not gone
\* on to load the image or to create a FUSE session.
ConfigErrorsReturnOne ==
  (main.pc # "start" /\ ~main.loaded /\ ConfigError(main.args))
    => /\ main.pc = "exited"
       /\ main.exit = 1
       /\ ~main.thrown
       /\ ~main.session

\* C21 as stated: the configuration passed to set_cache_tidy_config has the
\* user's tidy_interval when one was given and 5 minutes otherwise, the
\* user's tidy_max_age when one was given and 10 minutes otherwise, whatever
\* the other options are, and strategy none when no tidy_strategy was given.
TidyConfigCarriesUserValues ==
  main.inited =>
    /\ main.tidy.interval = (IF "tidy_interval" \in main.tidy_given
                               THEN UserMinutes ELSE DefaultTidyInterval)
    /\ main.tidy.expiry_time = (IF "tidy_max_age" \in main.tidy_given
                                  THEN UserMinutes ELSE DefaultTidyMaxAge)
    /\ "tidy_strategy" \notin main.tidy_given => main.tidy.strategy = "none"

\* C21 amended: the configuration passed to set_cache_tidy_config has the
\* user's strategy when tidy_strategy was given and none otherwise; it has
\* the user's tidy_interval and tidy_max_age only when tidy_strategy was
\* given as well; a time that was not given, and either time when no
\* tidy_strategy was given, is 5 minutes for the interval and 10 minutes for
\* the expiry time.
TidyConfigUnderStrategy ==
  main.inited =>
    LET strat == "tidy_strategy" \in main.tidy_given IN
    /\ main.tidy.strategy = (IF strat THEN "user" ELSE "none")
    /\ main.tidy.interval = (IF strat /\ "tidy_interval" \in main.tidy_given
                               THEN UserMinutes ELSE DefaultTidyInterval)
    /\ main.tidy.expiry_time = (IF strat /\ "tidy_max_age" \in main.tidy_given
                                  THEN UserMinutes ELSE DefaultTidyMaxAge)

TidyConfigWitness ==
  /\ main.inited
  /\ main.tidy_given = {"tidy_interval"}
  /\ main.tidy = [strategy |-> "none", interval |-> DefaultTidyInterval,
                  expiry_time |-> DefaultTidyMaxAge]

\* C22: a lookup that replies an entry advertises the maximum attribute
\* timeout and the maximum entry timeout, with the inode number of the
\* entry equal to the inode number of its attributes (the child's); a
\* getattr that replies attributes advertises the maximum attribute
\* timeout; and a lookup or getattr that finds its inode replies so.
LongestTimeouts ==
  /\ (req.op = "lookup" /\ Len(replies) >= 1 /\ replies[1].kind = "entry")
       => /\ replies[1].val.attr_timeout = DBL_MAX
          /\ replies[1].val.entry_timeout = DBL_MAX
          /\ replies[1].val.ino = replies[1].val.attr.st_ino
          /\ replies[1].val.ino = FindName(req.ino, req.name) + FUSE_ROOT_ID
  /\ (req.op = "getattr" /\ Len(replies) >= 1 /\ replies[1].kind = "attr")
       => /\ replies[1].val.attr_timeout = DBL_MAX
          /\ replies[1].val.attr.st_ino = req.ino
  /\ (req.op = "lookup" /\ req.fault = "none" /\ FindName(req.ino, req.name) # None)
       => Len(replies) = 1 /\ replies[1].kind = "entry"
  /\ (req.op = "getattr" /\ req.fault = "none" /\ Find(req.ino) # None)
       => Len(replies) = 1 /\ replies[1].kind = "attr"

LongestTimeoutsWitness ==
  /\ req.op = "lookup"
  /\ req.ino = FUSE_ROOT_ID
  /\ req.name = "big"
  /\ Len(replies) = 1
  /\ replies[1].kind = "entry"
  /\ replies[1].val.ino # req.ino
  /\ replies[1].val.entry_timeout = DBL_MAX

\* C23: a read whose file handle does not identify the requested inode is
\* answered with the one reply EIO, whatever the inode, size and offset are
\* and whether or not readv would throw: no filesystem call is made, so
\* nothing is read, and nothing in the block cache changes.
ReadBadHandle ==
  /\ []((req.op = "read" /\ FUSE_ROOT_ID + req.fh # req.ino)
          => /\ replies = << Reply("err", EIO) >>
             /\ fscalls = << >>
             /\ thrown = "none")
  /\ [][(req'.op = "read" /\ FUSE_ROOT_ID + req'.fh # req'.ino)
          => UNCHANGED <<entries, callers, queue, running>>]_vars

ReadBadHandleWitness ==
  /\ req.op = "read"
  /\ req.ino = FUSE_ROOT_ID + 5
  /\ req.fh = FUSE_ROOT_ID + 5
  /\ req.size = 4
  /\ req.fault = "none"
  /\ replies = << Reply("err", EIO) >>
  /\ fscalls = << >>

\* C24: every served request has exactly one reply, and no exception has
\* left its handler.
OneReplyPerRequest ==
  req.op # "none" => thrown = "none" /\ Len(replies) = 1

\* the policy op_readdir_common leaves behind for the served readdir
ReaddirPolicy == op_readdir_common(req.ino, req.size, req.off, req.fault, req.eno).out

RECURSIVE EntriesSize(_)
\* the bytes the entries of a reply take
EntriesSize(es) ==
  IF es = << >> THEN 0 ELSE fuse_add_direntry(Head(es).name) + EntriesSize(Tail(es))

\* C25: a readdir that replies a buffer has written at most the requested
\* size, the bytes written are those of whole entries, the assertion
\* written_ < buf_.size() held at every call of add_entry (for size 0
\* add_entry is not called and the reply is empty), the entries are those
\* of the directory at the consecutive offsets from the requested one, each
\* with cookie offset + 1, and the reply ends before the end of the
\* directory only at an entry that does not fit in the space left.
ReaddirWithinBuffer ==
  (req.op = "readdir" /\ Len(replies) = 1 /\ replies[1].kind = "buf") =>
    LET es == replies[1].val.entries
        d == Find(req.ino)
    IN /\ replies[1].val.size <= req.size
       /\ replies[1].val.size = EntriesSize(es)
       /\ ReaddirPolicy.asserted
       /\ req.size = 0 => es = << >>
       /\ \A k \in 1 .. Len(es) :
            /\ req.off + k <= Dirsize(d)
            /\ es[k].name = ReaddirAt(d, req.off + k - 1).name
            /\ es[k].ino = ReaddirAt(d, req.off + k - 1).inode + FUSE_ROOT_ID
            /\ es[k].off = req.off + k
       /\ req.off + Len(es) < Dirsize(d) =>
            replies[1].val.size + fuse_add_direntry(ReaddirAt(d, req.off + Len(es)).name)
              > req.size

ReaddirWithinBufferWitness ==
  /\ req.op = "readdir"
  /\ req.ino = FUSE_ROOT_ID
  /\ req.off = 1
  /\ req.size = 72
  /\ Len(replies) = 1
  /\ replies[1].kind = "buf"
  /\ replies[1].val.size = 64
  /\ Len(replies[1].val.entries) = 2
  /\ replies[1].val.entries[2] = [name |-> "lnk", ino |-> FUSE_ROOT_ID + 3, off |-> 3]

\* the steps of run_fuse that have an undo, and the undo of each
SetupSteps == {"session_new", "set_signal_handlers", "mount"}
UndoSteps == {"unmount", "remove_signal_handlers", "destroy"}
UndoOf(step) ==
  CASE step = "session_new" -> "destroy"
    [] step = "set_signal_handlers" -> "remove_signal_handlers"
    [] step = "mount" -> "unmount"

IsSetupStep(x) == x \in SetupSteps
IsUndoStep(x) == x \in UndoSteps

\* the undo steps that answer a sequence of setup steps: last set up, first undone
UndoInReverse(done) == [k \in 1 .. Len(done) |-> UndoOf(done[Len(done) + 1 - k])]

\* run_fuse has returned
RunFuseReturned == main.pc = "exited" /\ main.loaded

\* C26: when run_fuse has returned, the undo steps taken are those of the
\* setup steps that succeeded, each once and in reverse order; an undo step
\* is only taken on what is set up (unmount when mounted, handlers removed
\* when installed, session destroyed when created); the session loop runs
\* only with the session created, the handlers installed, the mount done
\* and the daemonize succeeded; the value returned is 1 unless the loop ran.
RunFuseUnwinds ==
  /\ [](RunFuseReturned =>
          /\ SelectSeq(main.steps, IsUndoStep)
               = UndoInReverse(SelectSeq(main.steps, IsSetupStep))
          /\ ~main.session /\ ~main.sighandlers /\ ~main.mounted
          /\ (\A k \in 1 .. Len(main.steps) : main.steps[k] # "loop") => main.exit = 1)
  /\ [](main.pc = "loop" =>
          main.session /\ main.sighandlers /\ main.mounted /\ main.daemonized)
  /\ [][/\ main'.pc = "loop" /\ main.pc # "loop" => main.mounted /\ main'.daemonized
        /\ main.mounted /\ ~main'.mounted => main.pc = "unmount"
        /\ main.sighandlers /\ ~main'.sighandlers => main.pc = "remove_signal_handlers"
        /\ main.session /\ ~main'.session => main.pc = "destroy"
        /\ main.pc = "unmount" => main.mounted
        /\ main.pc = "remove_signal_handlers" => main.sighandlers
        /\ main.pc = "destroy" => main.session]_vars

\* run_fuse returned after a failed fuse_daemonize: three steps undone
RunFuseUnwindsWitness ==
  /\ RunFuseReturned
  /\ main.steps = <<"session_new", "set_signal_handlers", "mount",
                    "unmount", "remove_signal_handlers", "destroy">>
  /\ main.exit = 1

\* dwarfs_main has read the command line it was given
CommandLineRead == main.pc # "start" /\ ~main.loaded

\* C27: of the non-option arguments of the command line dwarfs_main has
\* read, the first is the image and is not among the arguments kept for
\* FUSE; the second is kept for FUSE and sets seen_mountpoint; a third makes
\* option_hdl return an error; the image is the first argument whatever
\* follows it; load_filesystem is reached only with an image and a
\* mountpoint seen, and the image loaded is the first argument.
PositionalArguments ==
  /\ CommandLineRead =>
       LET a == main.args.nonopts
           r == fuse_opt_parse(main.args)
       IN /\ main.positionals = r.opts
          /\ a = << >> => r.opts = NoPositionals /\ r.kept = << >> /\ r.res = 0
          /\ Len(a) >= 1 => r.opts.fsimage = a[1]
          /\ Len(a) = 1 => r.opts.seen_mountpoint = 0 /\ r.kept = << >> /\ r.res = 0
          /\ Len(a) >= 2 => r.opts.seen_mountpoint = 1 /\ r.kept = << a[2] >>
          /\ Len(a) = 2 => r.res = 0
          /\ Len(a) >= 3 => r.res = 0 - 1
          /\ main.pc = "load" =>
               main.positionals.fsimage = a[1] /\ main.positionals.seen_mountpoint = 1
  /\ main.loaded =>
       /\ main.image # NoImage
       /\ main.image = main.positionals.fsimage
       /\ main.positionals.seen_mountpoint = 1

\* the image is about to be loaded from the first of two different arguments
PositionalArgumentsWitness ==
  /\ main.pc = "load"
  /\ main.args.nonopts = <<"image.dwarfs", "mnt">>
  /\ main.positionals = [fsimage |-> "image.dwarfs", seen_mountpoint |-> 1]
  /\ FuseArgs(main.args) = <<"mnt">>

\* the names listxattr returns on an inode, to a buffer of 64 KiB
ListedXattrs(ino) ==
  LET names == op_listxattr(ino, 65536).replies[1].val
  IN {names[k] : k \in 1 .. Len(names)}

\* C28: a getxattr served without a fault on an existing inode, for a name
\* listxattr returns on that inode, never replies attribute-not-found (nor
\* no-entry): it replies a non-empty value, a positive length to a probe,
\* or ERANGE to a buffer too small, and to a buffer of 64 KiB a non-empty
\* value; for a name listxattr does not return it replies ENODATA.
XattrListAgreesWithGet ==
  (req.op = "getxattr" /\ req.fault = "none" /\ Find(req.ino) # None) =>
    IF req.name \in ListedXattrs(req.ino)
      THEN /\ thrown = "none"
           /\ Len(replies) = 1
           /\ replies[1].kind = "err" => replies[1].val = ERANGE /\ req.size > 0
           /\ replies[1].kind = "buf" => replies[1].val # ""
           /\ replies[1].kind = "xattr" => replies[1].val > 0 /\ req.size = 0
           /\ HasXattrValue
           /\ XattrValue # ""
      ELSE RepliedErr(ENODATA)

\* the inode info of a regular file, the one name listed on it, is read
XattrListAgreesWithGetWitness ==
  /\ req.op = "getxattr"
  /\ req.ino = FUSE_ROOT_ID + 4
  /\ req.fault = "none"
  /\ req.name = inodeinfo_xattr
  /\ RepliedBuf(InodeInfoJson(4))
  /\ ListedXattrs(req.ino) = {inodeinfo_xattr}

\* C29: an open answered with an error (ENOENT, EISDIR, EACCES, or the
\* errno of a failed find) leaves the caller's file info as the kernel
\* passed it; an open that succeeds sets fh to the inode number and
\* direct_io and keep_cache to complementary values: keep_cache is the
\* cache_files option and direct_io its negation.
FailedOpenLeavesFileInfo ==
  (req.op = "open" /\ Len(replies) = 1) =>
    IF replies[1].kind = "err"
      THEN /\ fi = FileInfo(req.flags, 0)
           /\ req.fault = "none" => replies[1].val \in {ENOENT, EISDIR, EACCES}
      ELSE /\ replies[1].kind = "open"
           /\ replies[1].val = fi
           /\ fi.flags = req.flags
           /\ fi.fh = Resolved
           /\ fi.keep_cache = opts.cache_files
           /\ fi.direct_io + fi.keep_cache = 1

\* a regular file opened for writing: EACCES, and the file info untouched
FailedOpenWitness ==
  /\ req.op = "open"
  /\ req.fault = "none"
  /\ req.ino = FUSE_ROOT_ID + 4
  /\ req.flags = O_WRONLY
  /\ RepliedErr(EACCES)
  /\ fi = FileInfo(O_WRONLY, 0)

\* the deltas of the block the encoder has written, and their split
RiceDelta == MapBlock(rice.w, rice.traits, rice.block, rice.before)
RiceSplit == compute_best_split(RiceDelta, kFsMax(rice.w), SeqSum(RiceDelta))

\* the split is too wide, or takes no fewer bits than the pixels themselves
RicePlain ==
  \/ RiceSplit.fs >= kFsMax(rice.w)
  \/ RiceSplit.bits >= rice.w * Len(rice.block)

\* the writes after the mode code are the pixels of the block as they are
RicePlainPayload ==
  /\ Len(rice.written) = 1 + Len(rice.block)
  /\ \A i \in 1 .. Len(rice.block) :
       rice.written[i + 1] = WriteBits(rice.block[i], rice.w)

RECURSIVE WrittenBits(_)
\* the bits of a sequence of writes
WrittenBits(ws) == IF ws = << >> THEN 0 ELSE Head(ws).n + WrittenBits(Tail(ws))

\* a block of two pixels read with their halves exchanged is entropy-coded
\* with split 3, and the last pixel read is kept
RiceModeCodesWitness ==
  /\ rice.pc = "encoded"
  /\ rice.w = 8
  /\ rice.traits = "swapped"
  /\ rice.before = 1
  /\ rice.block = <<0, 127>>
  /\ rice.last_value = 247
  /\ rice.written[1] = WriteBits(4, 3)
  /\ WrittenBits(Tail(rice.written)) = RiceSplit.bits

\* C30: the first thing encode_block writes for a block is one mode code of
\* kFsBits bits, below 2^kFsBits for a pixel width that is a power of two;
\* the code is 0 exactly when every mapped difference is zero (and then
\* nothing else is written), kFsMax + 1 exactly when some difference is not
\* zero and the split is at least kFsMax or its estimate at least kPixelBits
\* times the block size (and then the pixels follow as they are), and
\* otherwise fs + 1, between 1 and kFsMax, followed by the Rice codes whose
\* bits add up to the estimate; last_value is then the last pixel read.
RiceModeCodes ==
  rice.pc = "encoded" =>
    LET code == rice.written[1].value
        zero == \A i \in 1 .. Len(RiceDelta) : RiceDelta[i] = 0
    IN /\ Len(rice.written) >= 1
       /\ rice.written[1].n = kFsBits(rice.w)
       /\ code \in 0 .. kFsMax(rice.w) + 1
       /\ Pow2(kFsBits(rice.w)) = rice.w => code < Pow2(kFsBits(rice.w))
       /\ code = 0 <=> zero
       /\ code = 0 => Len(rice.written) = 1
       /\ code = kFsMax(rice.w) + 1 <=> (~zero /\ RicePlain)
       /\ code = kFsMax(rice.w) + 1 => RicePlainPayload
       /\ code \in 1 .. kFsMax(rice.w) <=> (~zero /\ ~RicePlain)
       /\ code \in 1 .. kFsMax(rice.w) =>
            /\ code = RiceSplit.fs + 1
            /\ WrittenBits(Tail(rice.written)) = RiceSplit.bits
       /\ rice.block # << >> =>
            rice.last_value = traits_read(rice.w, rice.traits, rice.block[Len(rice.block)])
       /\ rice.block = << >> => rice.last_value = rice.before

====
